---- MODULE Spec2Model ----
(***************************************************************************)
(* Dogwalker: the mention intake (handle_app_mention), the cancel button   *)
(* (handle_cancel_task), the thread listener (handle_message) and the      *)
(* worker job run_coding_task, over the shared Redis keys                  *)
(*   dogwalker:active_tasks:{dog}, dogwalker:cancel:{task_id},             *)
(*   dogwalker:thread_tasks:{thread_ts}, dogwalker:thread_messages:{ts}.   *)
(* One task T is followed from its mention to the end of its last attempt; *)
(* the other members of the active sets are tasks of other threads.        *)
(* The Redis clients of the three processes are connected (redis_client is *)
(* not None) in this specification, and the one-hour TTL of the cancel key *)
(* does not run out while the task is followed.                            *)
(***************************************************************************)
EXTENDS Integers, Sequences, FiniteSets, TLC

\* ---------------------------------------------------------------- bounds
MaxClicks == 2      \* clicks on the "Cancel Task" button that are followed
MaxMsgs == 2        \* human messages posted in the thread that are followed
MaxOthers == 2      \* tasks of other threads in the active sets at the start

MaxTotal == 3     \* the ledger is followed up to this total

MaxLatency == 1   \* ticks an iteration takes besides an HTTP timeout

MaxSuffix == 3    \* branches up to base-MaxSuffix can exist on the forge
MaxPipe == 2      \* lines a child leaves in its output pipe at once

\* ------------------------------------------------------ program constants
max_retries == 3    \* @app.task(max_retries=3)

Dogs == <<"D1", "D2">>                \* config.dogs, in roster order
DogNames == {Dogs[i] : i \in 1..Len(Dogs)}
T == 0                                \* task_id = f"{channel_id}_{thread_ts}"
Others == 1..MaxOthers                \* task ids of other threads: the first
                                      \* dog starts with some, the second with
                                      \* some of the rest

VARIABLES
    active_tasks,     \* Redis: dogwalker:active_tasks:{dog}, a set per dog
    active0,          \* the active sets as they were before the mention
    cancel_key,       \* Redis: dogwalker:cancel:{T}; 0 = absent, n = hash written by click n
    thread_tasks_key, \* Redis: dogwalker:thread_tasks:{thread_ts} present
    thread_messages,  \* Redis: dogwalker:thread_messages:{thread_ts}, a list
    ipc,              \* position of handle_app_mention
    dog_name,         \* the dog the intake selected ("none" before)
    button,           \* the acknowledgement still shows its Cancel button
    clicks,           \* clicks handled so far
    posted,           \* human messages so far: where the worker was at each
    queued,           \* a run_coding_task message is in the broker
    wpc,              \* position of run_coding_task in the current attempt
    retries,          \* self.request.retries
    slack_client,     \* local: slack_client is not None
    pr_info,          \* local: pr_info is not None
    current_phase,    \* local: current_phase, written by check_cancellation
    exc,              \* the exception in flight: "none", "logic", "transient"
    message_pointer,  \* DogCommunication.message_pointer
    before_screenshots, \* local: before_screenshots is non-empty
    prompts,          \* feedback texts given to dog.run_task, with their place
    work_dir,         \* the working directory exists
    tree,             \* its git tree: ahead of the remote branch, tested
    remote_branch,    \* the branch is on the forge
    pr,               \* the PR on the forge: exists, draft, body
    annotations,      \* terminal annotations applied to the PR, in order
    posts,            \* final thread posts, in order
    result,           \* outcome of the attempt: "none", "success", ...
    clearedStamp,     \* value of cancel_key that clear_cancellation deleted
    rmtree_failed     \* the finally arm's shutil.rmtree raised in this attempt

pipelineVars == <<active_tasks, active0, cancel_key, thread_tasks_key, thread_messages,
          ipc, dog_name, button, clicks, posted, queued, wpc, retries,
          slack_client, pr_info, current_phase, exc, message_pointer,
          before_screenshots, prompts, work_dir, tree, remote_branch, pr,
          annotations, posts, result, clearedStamp, rmtree_failed>>

\* Dog.run_task, followed on its own (specification SpecRunTask)
VARIABLES
    rt_pc,             \* position inside Dog.run_task
    allow_no_changes,  \* parameter allow_no_changes
    coder_runs,        \* the prompts given to self.coder.run, in order
    validations,       \* the results of _validate_changes_compile, in order
    committed,         \* _commit_changes made the commit
    rt_result          \* "none", "true" (return True) or "raised"

runTaskVars == <<rt_pc, allow_no_changes, coder_runs, validations, committed,
                 rt_result>>

\* Dog.capture_before_screenshots / capture_after_screenshots, followed in
\* detail (specification SpecCapture)
VARIABLES
    before_start,      \* how start_dev_server ended in the last "before" capture
    after_start,       \* how the first start_dev_server of the last "after" capture ended
    after_runs,        \* run_task calls made by the last capture_after_screenshots
    after_starts,      \* start_dev_server calls made by the last capture_after_screenshots
    after_screenshots, \* local: after_screenshots is non-empty
    children           \* dev-server children the task launched that are still running

captureVars == <<before_start, after_start, after_runs, after_starts,
                 after_screenshots, children>>

\* one DogCommunication instance and the listener's appends, followed on
\* their own (specification SpecChannel)
VARIABLES
    drained,        \* everything get_new_messages has returned, call after call
    calls,          \* get_new_messages calls made outside wait_for_response
    w_pc,           \* position inside wait_for_response
    timeout,        \* parameter timeout
    poll_interval,  \* parameter poll_interval
    min_messages,   \* parameter min_messages
    elapsed,        \* time.time() - start_time
    all_responses,  \* local all_responses
    w_from          \* how much had been drained when wait_for_response was called

channelVars == <<drained, calls, w_pc, timeout, poll_interval, min_messages,
                 elapsed, all_responses, w_from>>

\* the cost ledger of one Dog (dog.py)
VARIABLES
    total_cost,        \* Dog.total_cost, in units of cost
    cost_breakdown     \* Dog.cost_breakdown: category -> amount

costVars == <<total_cost, cost_breakdown>>

\* the dev servers of the tasks running on one host (screenshot_tools.py)
VARIABLES
    busy,              \* ports on which programs outside the tasks accept connections
    s_pc,              \* per task: position in the before capture
    preferred_port,    \* per task: the port start_dev_server prefers
    dev_server_port,   \* per task: ScreenshotTools.dev_server_port, 0 for None
    dev_server_process, \* per task: state of the child process
    listening_on,      \* per task: port the child accepts connections on, 0 for none
    scan_in_use,       \* per task: the ports in use when the task scanned
    start_result,      \* per task: how start_dev_server returned
    answered_by        \* per task: whose server answered the readiness request, 0 for none

serverVars == <<busy, s_pc, preferred_port, dev_server_port,
                dev_server_process, listening_on, scan_in_use,
                start_result, answered_by>>

\* the wait loop of start_dev_server (screenshot_tools.py 321-490)
VARIABLES
    l_result,          \* how the wait loop of start_dev_server ended, "none" while waiting
    loop_elapsed,           \* ticks since start_time
    server_ready_seen, \* a ready banner was read
    compilation_in_progress, \* a compiling line was read and no compiled line since
    since_compile,     \* ticks since last_compilation_check, while compiling
    consecutive_timeouts, \* HTTP timeouts in a row
    since_output,      \* ticks since last_output_time, capped
    since_banner,      \* ticks since the first ready banner, capped
    any_timeout,       \* some HTTP request of this start timed out
    last_http,         \* outcome of the request of the last iteration
    silence_at_check,  \* since_output when the last iteration tested for a silent hang
    pipe_lines         \* lines in the child's pipe that "while read_output()" has yet to read

loopVars == <<l_result, loop_elapsed, server_ready_seen,
              compilation_in_progress, since_compile, consecutive_timeouts,
              since_output, since_banner, any_timeout, last_http,
              silence_at_check, pipe_lines>>

\* generate_branch_name (app_mentioned.py 26-77)
VARIABLES
    bn_dog_name,       \* generate_branch_name: dog_name, a string of characters
    date_prefix,       \* the date of the call, as formatted
    task_description,  \* the description, a string of characters
    branches,          \* names of the branches on the forge
    branch_name,       \* the candidate, at the end the result
    suffix,            \* the next suffix
    tried,             \* suffixes appended so far, in order
    bn_pc,             \* "off", "checking", "returned" or "done"
    live_branches      \* the branch names of the tasks enqueued, each with whether its worker has pushed it

branchVars == <<bn_dog_name, date_prefix, task_description, branches,
                branch_name, suffix, tried, bn_pc, live_branches>>

\* the PR title (worker_tasks.py 327-378, dog.py 143-187)
VARIABLES
    title_task,        \* the task description, a string of characters
    model_answer,      \* the text-generation answer, or Failed when the call raised
    pr_title_text,     \* the title text generate_pr_title returned
    pr_title,          \* the title passed to create_pull_request
    title_pc           \* "off", "generate", "build" or "created"

titleVars == <<title_task, model_answer, pr_title_text, pr_title, title_pc>>

\* the passes run to absorb thread feedback (worker_tasks.py 446-499)
VARIABLES
    feedback_pass      \* the tree after the last pass run for feedback: "none" before any, "changed", "unchanged"

feedbackVars == <<feedback_pass>>

\* handle_cancel_task command by command (cancel_task.py 28-133)
VARIABLES
    ch_pc,             \* position in handle_cancel_task: "off", "idle", "users_info", "hset", ...
    ch_clicks,         \* clicks handled or being handled
    redis_client,      \* the module connected at import (None otherwise)
    store_up,          \* the store answers commands
    key_set,           \* dogwalker:cancel:{task_id} exists
    key_ttl,           \* ... and carries a TTL
    ack_text,          \* the acknowledgement message: "button" or "requested"
    run_rewritten,     \* this run rewrote the acknowledgement
    run_error,         \* this run posted the could-not-cancel message
    cancelled_by       \* the name the run found: "none", "name", "Unknown User"

handlerVars == <<ch_pc, ch_clicks, redis_client, store_up, key_set,
                 key_ttl, ack_text, run_rewritten, run_error, cancelled_by>>

\* the worker's CancellationManager and its reach of the store (cancellation.py 13-51)
VARIABLES
    cm_client,         \* CancellationManager.redis_client is set (the ping at construction answered)
    cm_up,             \* the store answers the worker's queries
    cp_query           \* the query of the last checkpoint: "none", "answered", "failed"

outageVars == <<cm_client, cm_up, cp_query>>

\* two runs of handle_app_mention side by side (app_mentioned.py 161-183, dog_selector.py 51-165)
VARIABLES
    ds_client,         \* DogSelector.redis_client is set (the ping at construction answered)
    ds_up,             \* the store answers the selector's commands
    h_pc,              \* per handler: "off", "select", "scard", "sort", "mark" or "done"
    h_dog_loads,       \* per handler: local dog_loads of select_dog, as built so far
    h_failed,          \* per handler: the dogs whose scard raised in select_dog
    selected_dog       \* per handler: the dog select_dog returned, "none" before

selectorVars == <<ds_client, ds_up, h_pc, h_dog_loads, h_failed,
                  selected_dog>>

\* the variables of the later specifications, and all but those of one
laterVars == <<costVars, serverVars, loopVars, branchVars, titleVars,
               feedbackVars, handlerVars, outageVars, selectorVars>>

butCostVars == <<runTaskVars, captureVars, channelVars, serverVars,
                 loopVars, branchVars, titleVars, feedbackVars,
                 handlerVars, outageVars, selectorVars>>

butServerVars == <<runTaskVars, captureVars, channelVars, costVars,
                   loopVars, branchVars, titleVars, feedbackVars,
                   handlerVars, outageVars, selectorVars>>

butLoopVars == <<runTaskVars, captureVars, channelVars, costVars,
                 serverVars, branchVars, titleVars, feedbackVars,
                 handlerVars, outageVars, selectorVars>>

butBranchVars == <<runTaskVars, captureVars, channelVars, costVars,
                   serverVars, loopVars, titleVars, feedbackVars,
                   handlerVars, outageVars, selectorVars>>

butTitleVars == <<runTaskVars, captureVars, channelVars, costVars,
                  serverVars, loopVars, branchVars, feedbackVars,
                  handlerVars, outageVars, selectorVars>>

butFeedbackVars == <<runTaskVars, captureVars, channelVars, costVars,
                     serverVars, loopVars, branchVars, titleVars,
                     handlerVars, outageVars, selectorVars>>

butHandlerVars == <<runTaskVars, captureVars, channelVars, costVars,
                    serverVars, loopVars, branchVars, titleVars,
                    feedbackVars, outageVars, selectorVars>>

butOutageVars == <<runTaskVars, captureVars, channelVars, costVars,
                   serverVars, loopVars, branchVars, titleVars,
                   feedbackVars, handlerVars, selectorVars>>

butSelectorVars == <<runTaskVars, captureVars, channelVars, costVars,
                     serverVars, loopVars, branchVars, titleVars,
                     feedbackVars, handlerVars, outageVars>>

auxVars == <<runTaskVars, captureVars, channelVars, laterVars>>

vars == <<pipelineVars, auxVars>>

storeVars == <<active_tasks, cancel_key, thread_tasks_key, thread_messages>>
intakeVars == <<ipc, dog_name, queued>>
chatVars == <<button, clicks, posted>>
localVars == <<slack_client, pr_info, current_phase, exc, message_pointer,
               before_screenshots>>
forgeVars == <<remote_branch, pr, annotations>>
jobVars == <<wpc, retries, localVars, prompts, work_dir, tree, forgeVars, posts,
             result, clearedStamp, rmtree_failed>>

\* the categories Dog.__init__ declares (dog.py 54-63), and one it does not
DeclaredCategories ==
    {"pr_title", "plan_generation", "draft_pr_description", "implementation",
     "self_review", "testing", "critical_review", "final_pr_description"}

Categories == DeclaredCategories \cup {"undeclared"}

\* The wait loop of start_dev_server counts in ticks of 10 s; its sleep of
\* 2 s (screenshot_tools.py 488) is part of the latency of an iteration.
start_timeout == 18       \* timeout: int = 180
http_timeout_ready == 3   \* http_timeout = 30 if server_ready_seen
http_timeout_early == 1   \* ... else 10
compile_patience == 6     \* time_since_compilation < 60
silence_limit == 4        \* time_since_output > 40
timeouts_limit == 4       \* consecutive_timeouts >= 4

\* generate_branch_name (app_mentioned.py 30): max_length: int = 50
max_length == 50

\* worker_tasks.py 329 and 338: the lengths allowed to the title
title_max_length == 57
MAX_TITLE_LENGTH == 70

\* worker_tasks.py 337: PREFIX = "[Dogwalker] "
PREFIX == <<"[", "D", "o", "g", "w", "a", "l", "k", "e", "r", "]", " ">>

\* tasks that run at the same time on one host
Tasks == {1, 2}

\* runs of handle_app_mention that are under way at the same time
Handlers == {1, 2}

\* find_available_port (screenshot_tools.py 172): the alternatives, in order
alternative_ports == <<3001, 3002, 3003, 5173, 5174, 8080, 8081, 4200, 4201>>

\* detect_dev_server_port (screenshot_tools.py 131-152): the framework defaults
PreferredPorts == {3000, 5173, 4200, 8080}

AllPorts == PreferredPorts \cup {alternative_ports[i] : i \in DOMAIN alternative_ports}

\* ------------------------------------------------------------ DogSelector
get_active_task_count(d) == Cardinality(active_tasks[d])

\* dog_loads: one (dog, active_count) pair per dog, in roster order
dog_loads ==
    [i \in 1..Len(Dogs) |->
        [dog |-> Dogs[i], load |-> get_active_task_count(Dogs[i])]]

\* list.sort(key=lambda x: x[1]) is a stable sort: a pair goes behind the
\* pairs of the same load that came before it
insert_by_load(sorted, x) ==
    LET k == Cardinality({i \in 1..Len(sorted) : sorted[i].load <= x.load})
    IN SubSeq(sorted, 1, k) \o <<x>> \o SubSeq(sorted, k + 1, Len(sorted))

RECURSIVE sort_by_load(_)
sort_by_load(pairs) ==
    IF pairs = <<>> THEN <<>>
    ELSE insert_by_load(sort_by_load(SubSeq(pairs, 1, Len(pairs) - 1)),
                        pairs[Len(pairs)])

\* (the fallback "return self.available_dogs[0]" taken always)
select_dog_fallback == Dogs[1]

\* select_dog(): the only dog, or dog_loads sorted by load, first element
select_dog ==
    IF Len(Dogs) = 1 THEN Dogs[1]
    ELSE sort_by_load(dog_loads)[1].dog

mark_dog_busy(d, t) == [active_tasks EXCEPT ![d] = @ \cup {t}]

\* (a delete of the whole key in place of srem)
mark_dog_free_all(d, t) == [active_tasks EXCEPT ![d] = {}]

\* redis.srem(key, task_id); a task that is no member: a warning
mark_dog_free(d, t) == [active_tasks EXCEPT ![d] = @ \ {t}]

\* ---------------------------------------------------- CancellationManager
\* redis.exists(cancellation_key) > 0
is_cancelled(key) == key > 0

\* is_cancelled answering True when the query fails (mutation of
\* is_cancelled_at)
is_cancelled_fail_closed(client, answers, key) ==
    IF ~client THEN FALSE
    ELSE IF ~answers THEN TRUE
    ELSE key > 0

\* is_cancelled (cancellation.py 33-51) with its two failure arms: no client,
\* and the query raising
is_cancelled_at(client, answers, key) ==
    IF ~client THEN FALSE
    ELSE IF ~answers THEN FALSE
    ELSE key > 0

\* (a clear that leaves the key in place)
clear_cancellation_kept(key) == key

\* redis.delete(cancellation_key)
clear_cancellation(key) == 0

\* ------------------------------------------------------------------- Init
\* no call of Dog.run_task is followed step by step
RunTaskIdle ==
    /\ rt_pc = "idle"
    /\ allow_no_changes = FALSE
    /\ coder_runs = <<>>
    /\ validations = <<>>
    /\ committed = FALSE
    /\ rt_result = "none"

\* no capture is followed in detail
CaptureIdle ==
    /\ before_start = "none"
    /\ after_start = "none"
    /\ after_runs = 0
    /\ after_starts = 0
    /\ after_screenshots = FALSE
    /\ children = 0

\* no channel instance is followed on its own
ChannelIdle ==
    /\ drained = <<>>
    /\ calls = 0
    /\ w_pc = "idle"
    /\ timeout = 0
    /\ poll_interval = 0
    /\ min_messages = 0
    /\ elapsed = 0
    /\ all_responses = <<>>
    /\ w_from = 0

\* the cost ledger of one Dog (dog.py): not running
CostIdle ==
    /\ total_cost = 0
    /\ cost_breakdown = [c \in DeclaredCategories |-> 0]

\* the dev servers of the tasks running on one host (screenshot_tools.py): not running
ServerIdle ==
    /\ busy = {}
    /\ s_pc = [t \in Tasks |-> "off"]
    /\ preferred_port = [t \in Tasks |-> 0]
    /\ dev_server_port = [t \in Tasks |-> 0]
    /\ dev_server_process = [t \in Tasks |-> "none"]
    /\ listening_on = [t \in Tasks |-> 0]
    /\ scan_in_use = [t \in Tasks |-> {}]
    /\ start_result = [t \in Tasks |-> "none"]
    /\ answered_by = [t \in Tasks |-> 0]

\* the wait loop of start_dev_server (screenshot_tools.py 321-490): not running
LoopIdle ==
    /\ l_result = "off"
    /\ loop_elapsed = 0
    /\ server_ready_seen = FALSE
    /\ compilation_in_progress = FALSE
    /\ since_compile = 0
    /\ consecutive_timeouts = 0
    /\ since_output = 0
    /\ since_banner = 0
    /\ any_timeout = FALSE
    /\ last_http = "none"
    /\ silence_at_check = 0
    /\ pipe_lines = 0

\* generate_branch_name (app_mentioned.py 26-77): not running
BranchIdle ==
    /\ bn_dog_name = <<>>
    /\ date_prefix = <<>>
    /\ task_description = <<>>
    /\ branches = {}
    /\ branch_name = <<>>
    /\ suffix = 2
    /\ tried = <<>>
    /\ bn_pc = "off"
    /\ live_branches = <<>>

\* the PR title (worker_tasks.py 327-378, dog.py 143-187): not running
TitleIdle ==
    /\ title_task = <<>>
    /\ model_answer = <<>>
    /\ pr_title_text = <<>>
    /\ pr_title = <<>>
    /\ title_pc = "off"

\* the passes run to absorb thread feedback (worker_tasks.py 446-499): not running
FeedbackIdle ==
    /\ feedback_pass = "none"

\* handle_cancel_task command by command (cancel_task.py 28-133): not running
HandlerIdle ==
    /\ ch_pc = "off"
    /\ ch_clicks = 0
    /\ redis_client = FALSE
    /\ store_up = FALSE
    /\ key_set = FALSE
    /\ key_ttl = FALSE
    /\ ack_text = "button"
    /\ run_rewritten = FALSE
    /\ run_error = FALSE
    /\ cancelled_by = "none"

\* the worker's CancellationManager and its reach of the store (cancellation.py 13-51): not running
OutageIdle ==
    /\ cm_client = TRUE
    /\ cm_up = TRUE
    /\ cp_query = "none"

\* two runs of handle_app_mention side by side (app_mentioned.py 161-183, dog_selector.py 51-165): not running
SelectorIdle ==
    /\ ds_client = TRUE
    /\ ds_up = TRUE
    /\ h_pc = [h \in Handlers |-> "off"]
    /\ h_dog_loads = [h \in Handlers |-> <<>>]
    /\ h_failed = [h \in Handlers |-> {}]
    /\ selected_dog = [h \in Handlers |-> "none"]

\* none of the later specifications is running, and none but one
LaterIdle ==
    /\ CostIdle
    /\ ServerIdle
    /\ LoopIdle
    /\ BranchIdle
    /\ TitleIdle
    /\ FeedbackIdle
    /\ HandlerIdle
    /\ OutageIdle
    /\ SelectorIdle

IdleButCost ==
    /\ RunTaskIdle
    /\ CaptureIdle
    /\ ChannelIdle
    /\ ServerIdle
    /\ LoopIdle
    /\ BranchIdle
    /\ TitleIdle
    /\ FeedbackIdle
    /\ HandlerIdle
    /\ OutageIdle
    /\ SelectorIdle

IdleButServer ==
    /\ RunTaskIdle
    /\ CaptureIdle
    /\ ChannelIdle
    /\ CostIdle
    /\ LoopIdle
    /\ BranchIdle
    /\ TitleIdle
    /\ FeedbackIdle
    /\ HandlerIdle
    /\ OutageIdle
    /\ SelectorIdle

IdleButLoop ==
    /\ RunTaskIdle
    /\ CaptureIdle
    /\ ChannelIdle
    /\ CostIdle
    /\ ServerIdle
    /\ BranchIdle
    /\ TitleIdle
    /\ FeedbackIdle
    /\ HandlerIdle
    /\ OutageIdle
    /\ SelectorIdle

IdleButBranch ==
    /\ RunTaskIdle
    /\ CaptureIdle
    /\ ChannelIdle
    /\ CostIdle
    /\ ServerIdle
    /\ LoopIdle
    /\ TitleIdle
    /\ FeedbackIdle
    /\ HandlerIdle
    /\ OutageIdle
    /\ SelectorIdle

IdleButTitle ==
    /\ RunTaskIdle
    /\ CaptureIdle
    /\ ChannelIdle
    /\ CostIdle
    /\ ServerIdle
    /\ LoopIdle
    /\ BranchIdle
    /\ FeedbackIdle
    /\ HandlerIdle
    /\ OutageIdle
    /\ SelectorIdle

IdleButFeedback ==
    /\ RunTaskIdle
    /\ CaptureIdle
    /\ ChannelIdle
    /\ CostIdle
    /\ ServerIdle
    /\ LoopIdle
    /\ BranchIdle
    /\ TitleIdle
    /\ HandlerIdle
    /\ OutageIdle
    /\ SelectorIdle

IdleButHandler ==
    /\ RunTaskIdle
    /\ CaptureIdle
    /\ ChannelIdle
    /\ CostIdle
    /\ ServerIdle
    /\ LoopIdle
    /\ BranchIdle
    /\ TitleIdle
    /\ FeedbackIdle
    /\ OutageIdle
    /\ SelectorIdle

IdleButOutage ==
    /\ RunTaskIdle
    /\ CaptureIdle
    /\ ChannelIdle
    /\ CostIdle
    /\ ServerIdle
    /\ LoopIdle
    /\ BranchIdle
    /\ TitleIdle
    /\ FeedbackIdle
    /\ HandlerIdle
    /\ SelectorIdle

IdleButSelector ==
    /\ RunTaskIdle
    /\ CaptureIdle
    /\ ChannelIdle
    /\ CostIdle
    /\ ServerIdle
    /\ LoopIdle
    /\ BranchIdle
    /\ TitleIdle
    /\ FeedbackIdle
    /\ HandlerIdle
    /\ OutageIdle

AuxIdle == RunTaskIdle /\ CaptureIdle /\ ChannelIdle /\ LaterIdle

\* the tree of a new clone: level with the remote, no tests run on it
fresh_tree == [ahead |-> FALSE, tested |-> FALSE]

\* a commit was made in the tree (Dog._commit_changes, dog.py 522 and 748,
\* repo_manager.commit_changes): it is ahead of the remote branch
commit(t) == [t EXCEPT !.ahead = TRUE]

\* repo_manager.push_branch returned (worker_tasks.py 291, 524): the remote
\* branch has every commit of the tree
pushed(t) == [t EXCEPT !.ahead = FALSE]

\* the pipeline's state before the mention: the locals of run_coding_task at
\* lines 136-139, the store and the forge without the task
PipelineInit ==
    /\ \E a \in 0..MaxOthers : \E b \in 0..(MaxOthers - a) :
           active_tasks = [d \in DogNames |->
                              IF d = Dogs[1] THEN 1..a ELSE
                              IF d = Dogs[2] THEN (a + 1)..(a + b) ELSE {}]
    /\ active0 = active_tasks
    /\ cancel_key = 0
    /\ thread_tasks_key = FALSE
    /\ thread_messages = <<>>
    /\ ipc = "mention"
    /\ dog_name = "none"
    /\ button = FALSE
    /\ clicks = 0
    /\ posted = <<>>
    /\ queued = FALSE
    /\ wpc = "idle"
    /\ retries = 0
    /\ slack_client = FALSE
    /\ pr_info = FALSE
    /\ current_phase = "initialization"
    /\ exc = "none"
    /\ message_pointer = 0
    /\ before_screenshots = FALSE
    /\ prompts = <<>>
    /\ work_dir = FALSE
    /\ tree = fresh_tree
    /\ remote_branch = FALSE
    /\ pr = [exists |-> FALSE, draft |-> FALSE, body |-> "none"]
    /\ annotations = <<>>
    /\ posts = <<>>
    /\ result = "none"
    /\ clearedStamp = 0
    /\ rmtree_failed = FALSE

\* no task is in any active set, and none is followed
PipelineIdle ==
    /\ PipelineInit
    /\ \A d \in DogNames : active_tasks[d] = {}

Init ==
    /\ PipelineInit
    /\ AuxIdle

\* ----------------------------------------------------- handle_app_mention
\* dog = dog_selector.select_dog()
IntakeSelect ==
    /\ ipc = "mention"
    /\ dog_name' = select_dog
    /\ ipc' = "selected"
    /\ UNCHANGED <<auxVars, storeVars, active0, queued, chatVars, jobVars>>

\* branch_name = generate_branch_name(...); a forge error leaves through the
\* handler's except arm, before the dog was marked busy
IntakeBranch ==
    /\ ipc = "selected"
    /\ \E ok \in BOOLEAN : ipc' = IF ok THEN "branched" ELSE "intake_failed"
    /\ UNCHANGED <<auxVars, storeVars, active0, dog_name, queued, chatVars, jobVars>>

\* dog_selector.mark_dog_busy(dog_name, task_id)
IntakeMarkBusy ==
    /\ ipc = "branched"
    /\ active_tasks' = mark_dog_busy(dog_name, T)
    /\ ipc' = "busy"
    /\ UNCHANGED <<auxVars, cancel_key, thread_tasks_key, thread_messages, active0,
                   dog_name, queued, chatVars, jobVars>>

\* say(text=format_task_started(...)): returns, or raises into the except
\* arm, which posts a warning and returns without freeing the dog. (The call
\* at line 187 passes two of the three parameters format_task_started
\* declares, which raises; both outcomes are kept so that the job the worker
\* consumes is covered.)
IntakeAck ==
    /\ ipc = "busy"
    /\ \E ok \in BOOLEAN :
         /\ ipc' = IF ok THEN "acked" ELSE "intake_failed"
         /\ button' = ok
    /\ UNCHANGED <<auxVars, storeVars, active0, dog_name, queued, clicks, posted, jobVars>>

\* run_coding_task.delay(...): the job is in the broker, or delay raises
IntakeEnqueue ==
    /\ ipc = "acked"
    /\ \E ok \in BOOLEAN :
         /\ ipc' = IF ok THEN "enqueued" ELSE "intake_failed"
         /\ queued' = ok
    /\ UNCHANGED <<auxVars, storeVars, active0, dog_name, chatVars, jobVars>>

\* ------------------------------------------------------ handle_cancel_task
\* hset + expire on dogwalker:cancel:{task_id}; chat_update then replaces the
\* acknowledgement (and its button), unless that call fails
CancelClick ==
    /\ button
    /\ clicks < MaxClicks
    /\ clicks' = clicks + 1
    /\ cancel_key' = clicks + 1
    /\ \E updated \in BOOLEAN : button' = ~updated
    /\ UNCHANGED <<auxVars, active_tasks, thread_tasks_key, thread_messages, active0,
                   intakeVars, posted, jobVars>>

\* ---------------------------------------------------------- handle_message
\* what is remembered of the moment the human posts: whether dog.run_task of
\* the implementation was running, and in which attempt
PostedAt(p, n) ==
    [at |-> IF p = "implementation" THEN "implementation" ELSE "other",
     attempt |-> IF p = "implementation" THEN n ELSE 0]

\* a human message in the thread: stored only if the thread has a task bound
HumanMessage ==
    /\ ipc # "mention"
    /\ Len(posted) < MaxMsgs
    /\ posted' = Append(posted, PostedAt(wpc, retries))
    /\ thread_messages' = IF thread_tasks_key
                          THEN Append(thread_messages, Len(posted) + 1)
                          ELSE thread_messages
    /\ UNCHANGED <<auxVars, active_tasks, cancel_key, thread_tasks_key, active0,
                   intakeVars, button, clicks, jobVars>>

\* -------------------------------------------------------- DogCommunication
\* get_new_messages: the list from the pointer on
get_new_messages(msgs, ptr) == SubSeq(msgs, ptr + 1, Len(msgs))

\* (a read that leaves the pointer where it was)
new_pointer_stuck(msgs, ptr) == ptr

\* ... and the pointer after the read ("if new_messages:")
new_pointer(msgs, ptr) == IF Len(msgs) > ptr THEN Len(msgs) ELSE ptr

\* check_for_feedback: the combined text of the new messages, <<>> for None
check_for_feedback(msgs, ptr) == get_new_messages(msgs, ptr)

\* format_feedback_for_prompt: the feedback inside the fixed preamble
format_feedback_for_prompt(fb) == [preamble |-> "HUMAN FEEDBACK", feedback |-> fb]

\* ---------------------------------------------------------- run_coding_task
\* The statements of the try block, in program order
StepOrder == <<"start", "init", "cp_init", "planning", "cp_planning",
               "before_shots", "implementation", "cp_impl", "fb_impl",
               "self_review", "cp_review", "fb_review", "testing", "fb_final",
               "after_shots", "finalize", "update_pr", "mark_ready",
               "post_done", "free_done">>

IndexOf(p) == CHOOSE i \in 1..Len(StepOrder) : StepOrder[i] = p

\* (program order with the PR marked ready ahead of the final push)
NextStepReadyFirst(p) ==
    IF p = "after_shots" THEN "update_pr"
    ELSE IF p = "mark_ready" THEN "finalize"
    ELSE IF p = "finalize" THEN "post_done"
    ELSE StepOrder[IndexOf(p) + 1]

\* (program order with the self-review block left out)
NextStepSkipReview(p) ==
    IF p = "cp_impl" THEN "fb_review" ELSE StepOrder[IndexOf(p) + 1]

NextStep(p) == StepOrder[IndexOf(p) + 1]

\* (a check_cancellation inside the implementation step as well)
CheckpointPhaseMidStep(p) ==
    CASE p = "cp_init" -> "initialization"
      [] p = "cp_planning" -> "planning"
      [] p = "implementation" -> "planning"
      [] p = "cp_impl" -> "implementation"
      [] p = "cp_review" -> "self-review"
      [] OTHER -> "none"

\* the places where check_cancellation(phase) is called, with its argument
CheckpointPhase(p) ==
    CASE p = "cp_init" -> "initialization"
      [] p = "cp_planning" -> "planning"
      [] p = "cp_impl" -> "implementation"
      [] p = "cp_review" -> "self-review"
      [] OTHER -> "none"

\* exception classes: the except arm retries IOError/OSError/ConnectionError
ExcKinds == {"logic", "transient"}

\* what RepoManager raises when git clone / git push exits non-zero (the
\* remote cannot be reached, the push is rejected): subprocess.run(check=True)
\* raises CalledProcessError, which is no OSError
GitExcKinds == ExcKinds \cup {"CalledProcessError"}

\* an exception leaves the try block: the except Exception arm is next
Raise(kind) ==
    /\ wpc' = "fail_post"
    /\ exc' = kind

\* the broker hands the job to a worker
JobStart ==
    /\ queued
    /\ wpc = "idle"
    /\ queued' = FALSE
    /\ wpc' = "start"
    /\ UNCHANGED <<auxVars, storeVars, active0, ipc, dog_name, chatVars, retries,
                   localVars, prompts, work_dir, tree, forgeVars, posts, result,
                   clearedStamp, rmtree_failed>>

\* Slack App, dog lookup, GitHubClient, RepoManager: App() may raise before
\* slack_client is assigned, the rest after
StepStart ==
    /\ wpc = "start"
    /\ \/ /\ slack_client' = TRUE
          /\ wpc' = NextStep(wpc)
          /\ exc' = exc
       \/ \E kind \in ExcKinds, assigned \in BOOLEAN :
              /\ slack_client' = assigned
              /\ Raise(kind)
    /\ UNCHANGED <<auxVars, storeVars, active0, intakeVars, chatVars, retries, pr_info,
                   current_phase, message_pointer, before_screenshots, prompts,
                   work_dir, tree, forgeVars, posts, result, clearedStamp, rmtree_failed>>

\* clone, create_branch, images, web context, placeholder commit, push; the
\* push of a fresh placeholder commit is rejected when an earlier attempt
\* already pushed the branch
StepInit ==
    /\ wpc = "init"
    /\ \/ /\ ~remote_branch
          /\ work_dir' = TRUE
          /\ tree' = pushed(commit(fresh_tree))
          /\ remote_branch' = TRUE
          /\ wpc' = NextStep(wpc)
          /\ exc' = exc
       \/ \E kind \in GitExcKinds, wd \in BOOLEAN :
              /\ work_dir' = wd
              /\ tree' = IF wd THEN commit(fresh_tree) ELSE fresh_tree
              /\ remote_branch' = remote_branch
              /\ Raise(kind)
    /\ UNCHANGED <<auxVars, storeVars, active0, intakeVars, chatVars, retries,
                   slack_client, pr_info, current_phase, message_pointer,
                   before_screenshots, prompts, pr, annotations, posts, result,
                   clearedStamp, rmtree_failed>>

\* check_cancellation(phase): TaskCancelled if the flag is there
Checkpoint ==
    /\ CheckpointPhase(wpc) # "none"
    /\ current_phase' = CheckpointPhase(wpc)
    /\ wpc' = IF is_cancelled(cancel_key) THEN "cancel_pr" ELSE NextStep(wpc)
    /\ UNCHANGED <<auxVars, storeVars, active0, intakeVars, chatVars, retries,
                   slack_client, pr_info, exc, message_pointer,
                   before_screenshots, prompts, work_dir, tree, forgeVars, posts,
                   result, clearedStamp, rmtree_failed>>

\* DogCommunication(...), Dog(...), title, plan, draft body,
\* create_pull_request (None if the forge refuses, as it does for a second
\* PR of the same branch), then the draft-PR post
StepPlanning ==
    /\ wpc = "planning"
    /\ message_pointer' = 0
    /\ \/ /\ Raise("logic")
          /\ UNCHANGED <<pr, pr_info>>
       \/ /\ ~pr.exists
          /\ pr' = [exists |-> TRUE, draft |-> TRUE, body |-> "plan"]
          /\ pr_info' = TRUE
          /\ \/ /\ wpc' = NextStep(wpc)
                /\ exc' = exc
             \/ \E kind \in ExcKinds : Raise(kind)
    /\ UNCHANGED <<auxVars, storeVars, active0, intakeVars, chatVars, retries,
                   slack_client, current_phase, before_screenshots, prompts,
                   work_dir, tree, remote_branch, annotations, posts, result,
                   clearedStamp, rmtree_failed>>

\* capture_before_screenshots(plan), then the first feedback drain; the
\* prompt of the initial implementation carries the feedback, if any
StepBeforeShots ==
    /\ wpc = "before_shots"
    /\ \E shots \in BOOLEAN : before_screenshots' = shots
    /\ LET fb == check_for_feedback(thread_messages, message_pointer)
       IN prompts' = Append(prompts,
              [at |-> "initial",
               text |-> IF fb # <<>> THEN format_feedback_for_prompt(fb)
                        ELSE [preamble |-> "none", feedback |-> <<>>]])
    /\ message_pointer' = new_pointer(thread_messages, message_pointer)
    /\ wpc' = NextStep(wpc)
    /\ UNCHANGED <<auxVars, storeVars, active0, intakeVars, chatVars, retries,
                   slack_client, pr_info, current_phase, exc, work_dir, tree,
                   forgeVars, posts, result, clearedStamp, rmtree_failed>>

\* dog.run_task(full_task_description, ...): returns True or raises (no
\* change, validation not repaired, or an OS error)
StepImplementation ==
    /\ wpc = "implementation"
    /\ \/ /\ wpc' = NextStep(wpc)
          /\ exc' = exc
          /\ tree' = commit(tree)
       \/ /\ \E kind \in ExcKinds : Raise(kind)
          /\ tree' = tree
    /\ UNCHANGED <<auxVars, storeVars, active0, intakeVars, chatVars, retries,
                   slack_client, pr_info, current_phase, message_pointer,
                   before_screenshots, prompts, work_dir, forgeVars, posts,
                   result, clearedStamp, rmtree_failed>>

\* the drain after a checkpoint; with feedback, dog.run_task(feedback_prompt)
\* is called with allow_no_changes left at False, so it returns or raises
StepFeedback ==
    /\ wpc \in {"fb_impl", "fb_review"}
    /\ LET fb == check_for_feedback(thread_messages, message_pointer)
       IN IF fb = <<>>
          THEN /\ prompts' = prompts
               /\ wpc' = NextStep(wpc)
               /\ exc' = exc
               /\ tree' = tree
          ELSE /\ prompts' = Append(prompts,
                      [at |-> wpc, text |-> format_feedback_for_prompt(fb)])
               /\ \/ /\ wpc' = NextStep(wpc)
                     /\ exc' = exc
                     /\ tree' = commit(tree)
                  \/ /\ \E kind \in ExcKinds : Raise(kind)
                     /\ tree' = tree
    /\ message_pointer' = new_pointer(thread_messages, message_pointer)
    /\ UNCHANGED <<auxVars, storeVars, active0, intakeVars, chatVars, retries,
                   slack_client, pr_info, current_phase, before_screenshots,
                   work_dir, forgeVars, posts, result, clearedStamp, rmtree_failed>>

\* dog.run_self_review(): catches its own errors
StepSelfReview ==
    /\ wpc = "self_review"
    /\ wpc' = NextStep(wpc)
    /\ \E improved \in BOOLEAN :
         tree' = IF improved THEN commit(tree) ELSE tree
    /\ UNCHANGED <<auxVars, storeVars, active0, intakeVars, chatVars, retries,
                   localVars, prompts, work_dir, forgeVars, posts, result,
                   clearedStamp, rmtree_failed>>

\* dog.write_and_run_tests(): (False, msg) becomes ValueError
StepTesting ==
    /\ wpc = "testing"
    /\ \/ /\ wpc' = NextStep(wpc)
          /\ exc' = exc
          /\ tree' = [commit(tree) EXCEPT !.tested = TRUE]
       \/ /\ Raise("logic")
          /\ tree' = commit(tree)
    /\ UNCHANGED <<auxVars, storeVars, active0, intakeVars, chatVars, retries,
                   slack_client, pr_info, current_phase, message_pointer,
                   before_screenshots, prompts, work_dir, forgeVars, posts,
                   result, clearedStamp, rmtree_failed>>

\* the final drain; with feedback, run_task and a second run of the tests.
\* No check_cancellation follows the tests
StepFinalFeedback ==
    /\ wpc = "fb_final"
    /\ LET fb == check_for_feedback(thread_messages, message_pointer)
       IN IF fb = <<>>
          THEN /\ prompts' = prompts
               /\ wpc' = NextStep(wpc)
               /\ exc' = exc
               /\ tree' = tree
          ELSE /\ prompts' = Append(prompts,
                      [at |-> wpc, text |-> format_feedback_for_prompt(fb)])
               /\ \/ /\ wpc' = NextStep(wpc)
                     /\ exc' = exc
                     /\ tree' = [commit(tree) EXCEPT !.tested = TRUE]
                  \/ /\ \E kind \in ExcKinds : Raise(kind)
                     /\ \E changed \in BOOLEAN :
                          tree' = IF changed
                                  THEN [commit(tree) EXCEPT !.tested = FALSE]
                                  ELSE tree
    /\ message_pointer' = new_pointer(thread_messages, message_pointer)
    /\ UNCHANGED <<auxVars, storeVars, active0, intakeVars, chatVars, retries,
                   slack_client, pr_info, current_phase, before_screenshots,
                   work_dir, forgeVars, posts, result, clearedStamp, rmtree_failed>>

\* capture_after_screenshots(before_screenshots): returns a list
StepAfterShots ==
    /\ wpc = "after_shots"
    /\ wpc' = NextStep(wpc)
    /\ UNCHANGED <<auxVars, storeVars, active0, intakeVars, chatVars, retries,
                   localVars, prompts, work_dir, tree, forgeVars, posts, result,
                   clearedStamp, rmtree_failed>>

\* remove .gitkeep, commit, push, modified files, review points, final body
StepFinalize ==
    /\ wpc = "finalize"
    /\ \/ /\ wpc' = NextStep(wpc)
          /\ exc' = exc
          /\ tree' = pushed(commit(tree))
       \/ /\ \E kind \in GitExcKinds : Raise(kind)
          /\ tree' = commit(tree)
    /\ UNCHANGED <<auxVars, storeVars, active0, intakeVars, chatVars, retries,
                   slack_client, pr_info, current_phase, message_pointer,
                   before_screenshots, prompts, work_dir, forgeVars, posts,
                   result, clearedStamp, rmtree_failed>>

\* github_client.update_pull_request(body=final_pr_body): the bool it
\* returns is not looked at
StepUpdatePR ==
    /\ wpc = "update_pr"
    /\ \E ok \in BOOLEAN :
         pr' = IF ok THEN [pr EXCEPT !.body = "final"] ELSE pr
    /\ wpc' = NextStep(wpc)
    /\ UNCHANGED <<auxVars, storeVars, active0, intakeVars, chatVars, retries,
                   localVars, prompts, work_dir, tree, remote_branch, annotations,
                   posts, result, clearedStamp, rmtree_failed>>

\* github_client.mark_pr_ready(pr_number): the bool is not looked at
StepMarkReady ==
    /\ wpc = "mark_ready"
    /\ \E ok \in BOOLEAN :
         /\ pr' = IF ok THEN [pr EXCEPT !.draft = FALSE] ELSE pr
         /\ annotations' = IF ok THEN Append(annotations, "ready")
                           ELSE annotations
    /\ wpc' = NextStep(wpc)
    /\ UNCHANGED <<auxVars, storeVars, active0, intakeVars, chatVars, retries,
                   localVars, prompts, work_dir, tree, remote_branch, posts, result,
                   clearedStamp, rmtree_failed>>

\* the completion post; an error of chat_postMessage is an exception of the
\* try block
StepPostDone ==
    /\ wpc = "post_done"
    /\ \/ /\ posts' = Append(posts, "completed")
          /\ wpc' = NextStep(wpc)
          /\ exc' = exc
       \/ /\ posts' = posts
          /\ \E kind \in ExcKinds : Raise(kind)
    /\ UNCHANGED <<auxVars, storeVars, active0, intakeVars, chatVars, retries,
                   slack_client, pr_info, current_phase, message_pointer,
                   before_screenshots, prompts, work_dir, tree, forgeVars, result,
                   clearedStamp, rmtree_failed>>

\* dog_selector.mark_dog_free(dog_name, task_id); return {"status": "success"}
StepFreeDone ==
    /\ wpc = "free_done"
    /\ active_tasks' = mark_dog_free(dog_name, T)
    /\ result' = "success"
    /\ wpc' = "cleanup"
    /\ UNCHANGED <<auxVars, cancel_key, thread_tasks_key, thread_messages, active0,
                   intakeVars, chatVars, retries, localVars, prompts, work_dir, tree,
                   forgeVars, posts, clearedStamp, rmtree_failed>>

\* except TaskCancelled: "if pr_info:" update the PR body with the report
CancelPR ==
    /\ wpc = "cancel_pr"
    /\ IF pr_info
       THEN \E ok \in BOOLEAN :
              /\ pr' = IF ok THEN [pr EXCEPT !.body = "cancelled"] ELSE pr
              /\ annotations' = IF ok THEN Append(annotations, "cancelled")
                                ELSE annotations
       ELSE UNCHANGED <<pr, annotations>>
    /\ wpc' = "cancel_post"
    /\ UNCHANGED <<auxVars, storeVars, active0, intakeVars, chatVars, retries,
                   localVars, prompts, work_dir, tree, remote_branch, posts, result,
                   clearedStamp, rmtree_failed>>

\* "if slack_client:" the cancellation post; its error is logged
CancelPost ==
    /\ wpc = "cancel_post"
    /\ IF slack_client
       THEN \E ok \in BOOLEAN :
              posts' = IF ok THEN Append(posts, "cancelled") ELSE posts
       ELSE posts' = posts
    /\ wpc' = "cancel_clear"
    /\ UNCHANGED <<auxVars, storeVars, active0, intakeVars, chatVars, retries,
                   localVars, prompts, work_dir, tree, forgeVars, result,
                   clearedStamp, rmtree_failed>>

\* cancellation_manager.clear_cancellation(task_id)
CancelClear ==
    /\ wpc = "cancel_clear"
    /\ clearedStamp' = cancel_key
    /\ cancel_key' = clear_cancellation(cancel_key)
    /\ wpc' = "cancel_free"
    /\ UNCHANGED <<auxVars, active_tasks, thread_tasks_key, thread_messages, active0,
                   intakeVars, chatVars, retries, localVars, prompts, work_dir, tree,
                   forgeVars, posts, result, rmtree_failed>>

\* dog_selector.mark_dog_free(...); return {"status": "cancelled"}
CancelFree ==
    /\ wpc = "cancel_free"
    /\ active_tasks' = mark_dog_free(dog_name, T)
    /\ result' = "cancelled"
    /\ wpc' = "cleanup"
    /\ UNCHANGED <<auxVars, cancel_key, thread_tasks_key, thread_messages, active0,
                   intakeVars, chatVars, retries, localVars, prompts, work_dir, tree,
                   forgeVars, posts, clearedStamp, rmtree_failed>>

\* except Exception: "if slack_client:" the failure post, its error logged
FailPost ==
    /\ wpc = "fail_post"
    /\ IF slack_client
       THEN \E ok \in BOOLEAN :
              posts' = IF ok THEN Append(posts, "failed") ELSE posts
       ELSE posts' = posts
    /\ wpc' = "fail_free"
    /\ UNCHANGED <<auxVars, storeVars, active0, intakeVars, chatVars, retries,
                   localVars, prompts, work_dir, tree, forgeVars, result,
                   clearedStamp, rmtree_failed>>

\* countdown=2 ** self.request.retries
countdown(n) == 2 ^ n

\* (an except arm that retries whatever the exception is)
FailOutcomeRetryAll(kind, n) ==
    IF n < max_retries THEN "retry" ELSE "failed"

\* what the end of the except arm does with the exception: self.retry(...)
\* raises Retry, or the exception itself once max_retries is used up
FailOutcome(kind, n) ==
    IF kind = "transient" /\ n < max_retries THEN "retry" ELSE "failed"

\* dog_selector.mark_dog_free(...), then retry or return {"status": "failed"}
FailFree ==
    /\ wpc = "fail_free"
    /\ active_tasks' = mark_dog_free(dog_name, T)
    /\ result' = FailOutcome(exc, retries)
    /\ wpc' = "cleanup"
    /\ UNCHANGED <<auxVars, cancel_key, thread_tasks_key, thread_messages, active0,
                   intakeVars, chatVars, retries, localVars, prompts, work_dir, tree,
                   forgeVars, posts, clearedStamp, rmtree_failed>>

\* (a finally arm that leaves the directory in place)
rmtree_absent(exists, ok) == exists

\* "if work_dir.exists(): shutil.rmtree(work_dir)": the directory exists
\* afterwards only if it existed and the removal raised
rmtree(exists, ok) == exists /\ ~ok

\* finally: shutil.rmtree(work_dir), its error logged
Cleanup ==
    /\ wpc = "cleanup"
    /\ \E ok \in BOOLEAN :
         /\ work_dir' = rmtree(work_dir, ok)
         /\ rmtree_failed' = (work_dir /\ ~ok)
    /\ wpc' = IF result = "retry" THEN "retry_wait" ELSE "ended"
    /\ UNCHANGED <<auxVars, storeVars, active0, intakeVars, chatVars, retries,
                   localVars, prompts, tree, forgeVars, posts, result,
                   clearedStamp>>

\* the broker runs the job again after the countdown: a new call, new locals
RetryStart ==
    /\ wpc = "retry_wait"
    /\ retries' = retries + 1
    /\ wpc' = "start"
    /\ slack_client' = FALSE
    /\ pr_info' = FALSE
    /\ current_phase' = "initialization"
    /\ exc' = "none"
    /\ message_pointer' = 0
    /\ before_screenshots' = FALSE
    /\ prompts' = <<>>
    /\ tree' = fresh_tree
    /\ result' = "none"
    /\ rmtree_failed' = FALSE
    /\ UNCHANGED <<auxVars, storeVars, active0, intakeVars, chatVars, work_dir,
                   forgeVars, posts, clearedStamp>>

Next ==
    \/ IntakeSelect
    \/ IntakeBranch
    \/ IntakeMarkBusy
    \/ IntakeAck
    \/ IntakeEnqueue
    \/ CancelClick
    \/ HumanMessage
    \/ JobStart
    \/ StepStart
    \/ StepInit
    \/ Checkpoint
    \/ StepPlanning
    \/ StepBeforeShots
    \/ StepImplementation
    \/ StepFeedback
    \/ StepSelfReview
    \/ StepTesting
    \/ StepFinalFeedback
    \/ StepAfterShots
    \/ StepFinalize
    \/ StepUpdatePR
    \/ StepMarkReady
    \/ StepPostDone
    \/ StepFreeDone
    \/ CancelPR
    \/ CancelPost
    \/ CancelClear
    \/ CancelFree
    \/ FailPost
    \/ FailFree
    \/ Cleanup
    \/ RetryStart

Spec == Init /\ [][Next]_vars

\* ============================================================ Dog.run_task
\* One call of Dog.run_task, from self.coder.run(implementation_prompt) to
\* its return or raise. What the editing agent, git and the validators answer
\* is drawn from small sets.
MaxErr == 5                       \* distinct validator error outputs
ErrorOutputs == 1..MaxErr         \* validation_errors texts

\* (a fix prompt that leaves the validator's output out)
fix_prompt_blank(errors) == [kind |-> "fix", errors |-> 0]

\* fix_prompt: "...VALIDATION ERRORS:\n{validation_errors}..."
fix_prompt(errors) == [kind |-> "fix", errors |-> errors]

implementation_prompt == [kind |-> "implementation", errors |-> 0]

InitRunTask ==
    /\ PipelineIdle
    /\ CaptureIdle
    /\ ChannelIdle
    /\ LaterIdle
    /\ rt_pc = "coder_run"
    /\ allow_no_changes \in BOOLEAN
    /\ coder_runs = <<>>
    /\ validations = <<>>
    /\ committed = FALSE
    /\ rt_result = "none"

\* result = self.coder.run(implementation_prompt); an exception of the agent
\* goes through "except Exception: ... raise"
RT_CoderRun ==
    /\ rt_pc = "coder_run"
    /\ coder_runs' = Append(coder_runs, implementation_prompt)
    /\ \/ /\ rt_pc' = "git_status"
          /\ rt_result' = rt_result
       \/ /\ rt_pc' = "fault"
          /\ rt_result' = "raised"
    /\ UNCHANGED <<laterVars, pipelineVars, captureVars, channelVars, allow_no_changes, validations, committed>>

\* git status --porcelain: "if not git_status.stdout.strip()" returns True
\* under allow_no_changes and raises otherwise
RT_GitStatus ==
    /\ rt_pc = "git_status"
    /\ \E changed \in BOOLEAN :
         IF changed
         THEN /\ rt_pc' = "validate"
              /\ rt_result' = rt_result
         ELSE /\ rt_pc' = "done"
              /\ rt_result' = IF allow_no_changes THEN "true" ELSE "raised"
    /\ UNCHANGED <<laterVars, pipelineVars, captureVars, channelVars, allow_no_changes, coder_runs, validations,
                   committed>>

\* validation_passed, validation_errors = self._validate_changes_compile()
RT_Validate ==
    /\ rt_pc = "validate"
    /\ \/ /\ validations' = Append(validations, [passed |-> TRUE, errors |-> 0])
          /\ rt_pc' = "commit"
       \/ \E e \in ErrorOutputs :
            /\ validations' = Append(validations, [passed |-> FALSE, errors |-> e])
            /\ rt_pc' = "fix"
    /\ UNCHANGED <<laterVars, pipelineVars, captureVars, channelVars, allow_no_changes, coder_runs, committed,
                   rt_result>>

\* fix_result = self.coder.run(fix_prompt)
RT_Fix ==
    /\ rt_pc = "fix"
    /\ coder_runs' = Append(coder_runs,
                            fix_prompt(validations[Len(validations)].errors))
    /\ \/ /\ rt_pc' = "revalidate"
          /\ rt_result' = rt_result
       \/ /\ rt_pc' = "fault"
          /\ rt_result' = "raised"
    /\ UNCHANGED <<laterVars, pipelineVars, captureVars, channelVars, allow_no_changes, validations, committed>>

\* the second _validate_changes_compile(); "if not validation_passed: raise"
RT_Revalidate ==
    /\ rt_pc = "revalidate"
    /\ \/ /\ validations' = Append(validations, [passed |-> TRUE, errors |-> 0])
          /\ rt_pc' = "commit"
          /\ rt_result' = rt_result
       \/ \E e \in ErrorOutputs :
            /\ validations' = Append(validations, [passed |-> FALSE, errors |-> e])
            /\ rt_pc' = "done"
            /\ rt_result' = "raised"
    /\ UNCHANGED <<laterVars, pipelineVars, captureVars, channelVars, allow_no_changes, coder_runs, committed>>

\* self._commit_changes(...), cost tracking, return True; a git error
\* (CalledProcessError) is raised again
RT_Commit ==
    /\ rt_pc = "commit"
    /\ \/ /\ committed' = TRUE
          /\ rt_pc' = "done"
          /\ rt_result' = "true"
       \/ /\ committed' = FALSE
          /\ rt_pc' = "fault"
          /\ rt_result' = "raised"
    /\ UNCHANGED <<laterVars, pipelineVars, captureVars, channelVars, allow_no_changes, coder_runs, validations>>

NextRunTask ==
    \/ RT_CoderRun
    \/ RT_GitStatus
    \/ RT_Validate
    \/ RT_Fix
    \/ RT_Revalidate
    \/ RT_Commit

SpecRunTask == InitRunTask /\ [][NextRunTask]_vars

\* ================================================== before/after captures
\* The ways ScreenshotTools.start_dev_server ends: the HTTP probe answered
\* ("ready"), or one of its "return False" exits
ServerFailures == {"compile_error", "compile_hang", "silent_hang",
                   "runtime_hang", "child_exit", "no_port", "install_failed",
                   "timeout"}
ServerOutcomes == {"ready"} \cup ServerFailures

\* start_dev_server returns True on "ready", and on "ready_detected" (the
\* port found in the output answered after the timeout); every failure is a
\* return False (the body after Popen is inside "try ... except Exception:
\* return False")
start_dev_server(outcome) == outcome \in {"ready", "ready_detected"}

\* ScreenshotTools assigns no attribute last_error_type, on any exit of
\* start_dev_server: hasattr(self.screenshot_tools, 'last_error_type') is False
last_error_type == "unset"

\* (a "before" capture that goes on to the screenshots without looking at
\* what start_dev_server returned)
capture_before_unchecked(frontend, outcome, shots) == frontend /\ shots

\* capture_before_screenshots(plan): whether the list it returns is non-empty.
\* self.screenshot_tools is always set by run_coding_task, and
\* extract_urls_from_plan never returns an empty list.
capture_before_screenshots(frontend, outcome, shots) ==
    frontend /\ start_dev_server(outcome) /\ shots

\* capture_after_screenshots(before_screenshots): the list it returns
\* (non-empty or not) with the run_task and start_dev_server calls it made.
\* repaired: run_task(fix_prompt, allow_no_changes=True) returned True, and
\* did not raise
capture_after_screenshots(before, outcome, repaired, retry, shots) ==
    IF ~before
    THEN [screenshots |-> FALSE, runs |-> 0, starts |-> 0]
    ELSE IF start_dev_server(outcome)
    THEN [screenshots |-> shots, runs |-> 0, starts |-> 1]
    ELSE IF last_error_type = "compilation_hang"
    THEN IF repaired
         THEN [screenshots |-> start_dev_server(retry) /\ shots,
               runs |-> 1, starts |-> 2]
         ELSE [screenshots |-> FALSE, runs |-> 1, starts |-> 1]
    ELSE [screenshots |-> FALSE, runs |-> 0, starts |-> 1]

\* the child of a start_dev_server that ended this way is running when the
\* call returns: the server answered, or the wait loop returned False at
\* screenshot_tools.py 363, 406, 432 or 455, none of which stops the child.
\* A child that died is gone, the timeout exit kills it (530-537), and the
\* exits before Popen launch none.
leaves_child(outcome) ==
    outcome \in {"ready", "compile_error", "compile_hang", "silent_hang",
                 "runtime_hang"}

\* children left by capture_before_screenshots: stop_dev_server is called
\* after a start that returned True (dog.py 1505, 1528), not after one that
\* returned False (1491-1494)
children_before(frontend, outcome) ==
    IF frontend /\ ~start_dev_server(outcome) /\ leaves_child(outcome)
    THEN 1 ELSE 0

\* children left by capture_after_screenshots (dog.py 1545-1638), which
\* calls stop_dev_server on no path
children_after(before, outcome, repaired, retry) ==
    IF ~before THEN 0
    ELSE (IF leaves_child(outcome) THEN 1 ELSE 0)
         + (IF ~start_dev_server(outcome)
                 /\ last_error_type = "compilation_hang"
                 /\ repaired /\ leaves_child(retry)
            THEN 1 ELSE 0)

\* the mention arrives while no other task is in any active set
InitCapture ==
    /\ PipelineIdle
    /\ AuxIdle

\* the intake of the task, in one step (no other handler runs in between)
CapIntake ==
    /\ ipc = "mention"
    /\ ipc' = "enqueued"
    /\ dog_name' = select_dog
    /\ active_tasks' = mark_dog_busy(select_dog, T)
    /\ button' = TRUE
    /\ queued' = TRUE
    /\ UNCHANGED <<auxVars, cancel_key, thread_tasks_key, thread_messages,
                   active0, clicks, posted, jobVars>>

\* StepBeforeShots with capture_before_screenshots spelled out
CapBeforeShots ==
    /\ wpc = "before_shots"
    /\ \E frontend \in BOOLEAN, outcome \in ServerOutcomes, shots \in BOOLEAN :
         /\ before_screenshots' = capture_before_screenshots(frontend, outcome, shots)
         /\ before_start' = IF frontend THEN outcome ELSE "none"
         /\ children' = children + children_before(frontend, outcome)
    /\ LET fb == check_for_feedback(thread_messages, message_pointer)
       IN prompts' = Append(prompts,
              [at |-> "initial",
               text |-> IF fb # <<>> THEN format_feedback_for_prompt(fb)
                        ELSE [preamble |-> "none", feedback |-> <<>>]])
    /\ message_pointer' = new_pointer(thread_messages, message_pointer)
    /\ wpc' = NextStep(wpc)
    /\ UNCHANGED <<laterVars, runTaskVars, channelVars, after_start, after_runs,
                   after_starts, after_screenshots, storeVars, active0, intakeVars, chatVars,
                   retries, slack_client, pr_info, current_phase, exc, work_dir, tree,
                   forgeVars, posts, result, clearedStamp, rmtree_failed>>

\* StepAfterShots with "if before_screenshots:" and
\* capture_after_screenshots spelled out
CapAfterShots ==
    /\ wpc = "after_shots"
    /\ \E outcome \in ServerOutcomes, repaired \in BOOLEAN,
          retry \in ServerOutcomes, shots \in BOOLEAN :
         LET r == capture_after_screenshots(before_screenshots, outcome,
                                            repaired, retry, shots)
         IN /\ after_screenshots' = r.screenshots
            /\ after_runs' = r.runs
            /\ after_starts' = r.starts
            /\ after_start' = IF r.starts > 0 THEN outcome ELSE "none"
            /\ children' = children + children_after(before_screenshots,
                                                     outcome, repaired, retry)
            /\ tree' = IF r.runs > 0 /\ repaired THEN commit(tree) ELSE tree
    /\ wpc' = NextStep(wpc)
    /\ UNCHANGED <<laterVars, runTaskVars, channelVars, before_start, storeVars, active0,
                   intakeVars,
                   chatVars, retries, localVars, prompts, work_dir, forgeVars,
                   posts, result, clearedStamp, rmtree_failed>>

NextCapture ==
    \/ CapIntake
    \/ JobStart
    \/ StepStart
    \/ StepInit
    \/ Checkpoint
    \/ StepPlanning
    \/ CapBeforeShots
    \/ StepImplementation
    \/ StepFeedback
    \/ StepSelfReview
    \/ StepTesting
    \/ StepFinalFeedback
    \/ CapAfterShots
    \/ StepFinalize
    \/ StepUpdatePR
    \/ StepMarkReady
    \/ StepPostDone
    \/ StepFreeDone
    \/ FailPost
    \/ FailFree
    \/ Cleanup
    \/ RetryStart

SpecCapture == InitCapture /\ [][NextCapture]_vars

\* ======================================================= DogCommunication
\* One DogCommunication instance (message_pointer = 0 at construction), the
\* thread's list in the store, and the listener appending to it.
MaxCalls == 3      \* get_new_messages calls followed outside wait_for_response
MaxTimeout == 3    \* largest timeout given to wait_for_response
MaxPoll == 2       \* largest poll_interval
MaxMin == 2        \* largest min_messages

\* (an accumulation that keeps only the latest batch)
extend_latest(all, new) == new

\* all_responses.extend(new_messages)
extend(all, new) == all \o new

InitChannel ==
    /\ PipelineIdle
    /\ RunTaskIdle
    /\ CaptureIdle
    /\ ChannelIdle
    /\ LaterIdle

\* handle_message past its lookups: rpush(messages_key, json.dumps(...)) and
\* expire. The message is named by its place in the thread.
InboxAppend ==
    /\ Len(thread_messages) < MaxMsgs
    /\ thread_messages' = Append(thread_messages, Len(thread_messages) + 1)
    /\ UNCHANGED <<laterVars, runTaskVars, captureVars, channelVars, active_tasks,
                   active0, cancel_key, thread_tasks_key, intakeVars, chatVars,
                   jobVars>>

\* a get_new_messages call from check_for_feedback: the messages from the
\* pointer on, or [] when lrange raises
Drain ==
    /\ w_pc = "idle"
    /\ calls < MaxCalls
    /\ calls' = calls + 1
    /\ \E ok \in BOOLEAN :
         IF ok
         THEN /\ drained' = drained \o get_new_messages(thread_messages, message_pointer)
              /\ message_pointer' = new_pointer(thread_messages, message_pointer)
         ELSE UNCHANGED <<drained, message_pointer>>
    /\ UNCHANGED <<laterVars, runTaskVars, captureVars, w_pc, timeout, poll_interval,
                   min_messages, elapsed, all_responses, w_from, storeVars,
                   active0, intakeVars, chatVars, wpc, retries, slack_client,
                   pr_info, current_phase, exc, before_screenshots, prompts,
                   work_dir, tree, forgeVars, posts, result, clearedStamp,
                   rmtree_failed>>

\* wait_for_response(timeout, poll_interval, min_messages) is called:
\* start_time = time.time(); all_responses = []
WaitCall ==
    /\ w_pc = "idle"
    /\ w_pc' = "loop"
    /\ timeout' \in 0..MaxTimeout
    /\ poll_interval' \in 1..MaxPoll
    /\ min_messages' \in 1..MaxMin
    /\ elapsed' = 0
    /\ all_responses' = <<>>
    /\ w_from' = Len(drained)
    /\ UNCHANGED <<laterVars, runTaskVars, captureVars, drained, calls, pipelineVars>>

\* one turn of "while (time.time() - start_time) < timeout": a
\* get_new_messages call, the return when there are enough messages, else
\* time.sleep(poll_interval); with the loop condition false, the return
\* after the loop
WaitTurn ==
    /\ w_pc = "loop"
    /\ IF elapsed < timeout
       THEN \E ok \in BOOLEAN :
              LET new_messages == IF ok
                                  THEN get_new_messages(thread_messages, message_pointer)
                                  ELSE <<>>
                  collected == IF new_messages # <<>>
                               THEN extend(all_responses, new_messages)
                               ELSE all_responses
              IN /\ drained' = drained \o new_messages
                 /\ message_pointer' = IF ok
                                       THEN new_pointer(thread_messages, message_pointer)
                                       ELSE message_pointer
                 /\ all_responses' = collected
                 /\ IF new_messages # <<>> /\ Len(collected) >= min_messages
                    THEN /\ w_pc' = "returned"
                         /\ elapsed' = elapsed
                    ELSE /\ w_pc' = "loop"
                         /\ elapsed' = elapsed + poll_interval
       ELSE /\ w_pc' = "returned"
            /\ UNCHANGED <<drained, message_pointer, all_responses, elapsed>>
    /\ UNCHANGED <<laterVars, runTaskVars, captureVars, calls, timeout, poll_interval,
                   min_messages, w_from, storeVars, active0, intakeVars,
                   chatVars, wpc, retries, slack_client, pr_info, current_phase,
                   exc, before_screenshots, prompts, work_dir, tree, forgeVars, posts,
                   result, clearedStamp, rmtree_failed>>

NextChannel ==
    \/ InboxAppend
    \/ Drain
    \/ WaitCall
    \/ WaitTurn

\* the worker thread that runs wait_for_response keeps running
SpecChannel == InitChannel /\ [][NextChannel]_vars /\ WF_vars(WaitTurn)

\* ============================================================= cost ledger
\* The two ledger fields of a Dog and every statement that writes them.
\* Amounts are whole units of cost.

Costs == 0..MaxTotal

\* dog.py 133-137 with the known-category test dropped: an undeclared
\* category is not entered (mutation of add_to_breakdown)
add_to_breakdown_declared_only(breakdown, category, cost) ==
    IF category \in DOMAIN breakdown
    THEN [breakdown EXCEPT ![category] = @ + cost]
    ELSE breakdown

\* dog.py 133-137: add to the category's entry, creating it when unknown
add_to_breakdown(breakdown, category, cost) ==
    IF category \in DOMAIN breakdown
    THEN [breakdown EXCEPT ![category] = @ + cost]
    ELSE [c \in DOMAIN breakdown \cup {category} |->
              IF c = category THEN cost ELSE breakdown[c]]

RECURSIVE SumOver(_, _)
SumOver(f, S) ==
    IF S = {} THEN 0
    ELSE LET c == CHOOSE x \in S : TRUE IN f[c] + SumOver(f, S \ {c})

\* get_cost_report (dog.py 1362-1372): the total and a copy of the breakdown
get_cost_report == [total_cost |-> total_cost, breakdown |-> cost_breakdown]

InitCost ==
    /\ PipelineIdle
    /\ IdleButCost
    /\ CostIdle

\* call_claude_api (dog.py 125-139), the ledger part: the call's cost goes
\* to the total and to its category
CallClaudeApi ==
    \E category \in Categories : \E cost \in Costs :
        /\ total_cost + cost <= MaxTotal
        /\ total_cost' = total_cost + cost
        /\ cost_breakdown' = add_to_breakdown(cost_breakdown, category, cost)
        /\ UNCHANGED <<pipelineVars, butCostVars>>

\* run_task 524-529, run_self_review 899-903, write_and_run_tests 990-994:
\* the editing agent's cost, when it is non-zero, goes to the total and to
\* the step's declared category
AiderCost ==
    \E category \in {"implementation", "self_review", "testing"} :
    \E aider_cost \in Costs :
        /\ total_cost + aider_cost <= MaxTotal
        /\ IF aider_cost # 0
           THEN /\ total_cost' = total_cost + aider_cost
                /\ cost_breakdown' =
                       [cost_breakdown EXCEPT ![category] = @ + aider_cost]
           ELSE UNCHANGED costVars
        /\ UNCHANGED <<pipelineVars, butCostVars>>

NextCost == CallClaudeApi \/ AiderCost

SpecCost == InitCost /\ [][NextCost]_vars

\* ============================================================= dev servers
\* start_dev_server, stop_dev_server and the before capture that calls them,
\* for the tasks of one host. A port is in use when a program accepts
\* connections on it: a program outside the tasks, or a task's child.

InUse == busy \cup {listening_on[t] : t \in {u \in Tasks : listening_on[u] # 0}}

\* is_port_available (screenshot_tools.py 73-91): the connection is refused
is_port_available(port, in_use) == port \notin in_use

RECURSIVE first_available(_, _)
first_available(ports, in_use) ==
    IF ports = <<>> THEN 0
    ELSE IF is_port_available(Head(ports), in_use) THEN Head(ports)
    ELSE first_available(Tail(ports), in_use)

\* find_available_port that takes the first listed alternative unchecked
\* when the preferred port is taken (mutation of find_available_port)
find_available_port_unchecked(preferred, in_use) ==
    IF is_port_available(preferred, in_use) THEN preferred
    ELSE first_available(SelectSeq(alternative_ports, LAMBDA p : p # preferred), {})

\* find_available_port (screenshot_tools.py 154-183); 0 stands for None
find_available_port(preferred, in_use) ==
    IF is_port_available(preferred, in_use) THEN preferred
    ELSE first_available(SelectSeq(alternative_ports, LAMBDA p : p # preferred), in_use)

\* the exits of start_dev_server that return False after the child was
\* launched and leave it as it is (screenshot_tools.py 363, 403, 434, 452)
LoopFailures == {"compile_error", "compile_hang", "runtime_hang", "silent_hang"}

Running(t) == dev_server_process[t] \in {"running", "listening"}

\* one task takes part, any set of ports is taken by other programs
InitDevServer ==
    /\ PipelineIdle
    /\ IdleButServer
    /\ busy \in SUBSET AllPorts
    /\ s_pc = [t \in Tasks |-> IF t = 1 THEN "idle" ELSE "off"]
    /\ preferred_port = [t \in Tasks |-> 0]
    /\ dev_server_port = [t \in Tasks |-> 0]
    /\ dev_server_process = [t \in Tasks |-> "none"]
    /\ listening_on = [t \in Tasks |-> 0]
    /\ scan_in_use = [t \in Tasks |-> {}]
    /\ start_result = [t \in Tasks |-> "none"]
    /\ answered_by = [t \in Tasks |-> 0]

\* start_dev_server 213-236: detect the preferred port and scan; without a
\* free port it returns False
ScanPorts(t) ==
    /\ s_pc[t] = "idle"
    /\ \E preferred \in PreferredPorts :
         LET available_port == find_available_port(preferred, InUse) IN
           /\ preferred_port' = [preferred_port EXCEPT ![t] = preferred]
           /\ scan_in_use' = [scan_in_use EXCEPT ![t] = InUse]
           /\ IF available_port = 0
              THEN /\ s_pc' = [s_pc EXCEPT ![t] = "returned"]
                   /\ start_result' = [start_result EXCEPT ![t] = "no_port"]
                   /\ UNCHANGED dev_server_port
              ELSE /\ s_pc' = [s_pc EXCEPT ![t] = "install"]
                   /\ dev_server_port' = [dev_server_port EXCEPT ![t] = available_port]
                   /\ UNCHANGED start_result
    /\ UNCHANGED <<pipelineVars, butServerVars, busy, dev_server_process,
                   listening_on, answered_by>>

\* start_dev_server 238-259: npm install when node_modules is missing
Install(t) ==
    /\ s_pc[t] = "install"
    /\ \E ok \in BOOLEAN :
         IF ok
         THEN /\ s_pc' = [s_pc EXCEPT ![t] = "launch"]
              /\ UNCHANGED start_result
         ELSE /\ s_pc' = [s_pc EXCEPT ![t] = "returned"]
              /\ start_result' = [start_result EXCEPT ![t] = "install_failed"]
    /\ UNCHANGED <<pipelineVars, butServerVars, busy, preferred_port,
                   dev_server_port, dev_server_process, listening_on,
                   scan_in_use, answered_by>>

\* start_dev_server 263-278: Popen with PORT set to the chosen port
Launch(t) ==
    /\ s_pc[t] = "launch"
    /\ s_pc' = [s_pc EXCEPT ![t] = "wait"]
    /\ dev_server_process' = [dev_server_process EXCEPT ![t] = "running"]
    /\ UNCHANGED <<pipelineVars, butServerVars, busy, preferred_port,
                   dev_server_port, listening_on, scan_in_use, start_result,
                   answered_by>>

\* the child binds the port it was given, when nobody holds it
ChildListen(t) ==
    /\ dev_server_process[t] = "running"
    /\ dev_server_port[t] \notin InUse
    /\ dev_server_process' = [dev_server_process EXCEPT ![t] = "listening"]
    /\ listening_on' = [listening_on EXCEPT ![t] = dev_server_port[t]]
    /\ UNCHANGED <<pipelineVars, butServerVars, busy, s_pc, preferred_port,
                   dev_server_port, scan_in_use, start_result, answered_by>>

\* the child exits by itself (address in use, crash)
ChildExit(t) ==
    /\ Running(t)
    /\ dev_server_process' = [dev_server_process EXCEPT ![t] = "exited"]
    /\ listening_on' = [listening_on EXCEPT ![t] = 0]
    /\ UNCHANGED <<pipelineVars, butServerVars, busy, s_pc, preferred_port,
                   dev_server_port, scan_in_use, start_result, answered_by>>

\* wait loop 408-417: a request to localhost:dev_server_port is answered
\* with a status below 500, by whoever listens there
ProbeAnswered(t) ==
    /\ s_pc[t] = "wait"
    /\ \E u \in Tasks :
         /\ listening_on[u] = dev_server_port[t]
         /\ answered_by' = [answered_by EXCEPT ![t] = u]
    /\ s_pc' = [s_pc EXCEPT ![t] = "returned"]
    /\ start_result' = [start_result EXCEPT ![t] = "ready"]
    /\ UNCHANGED <<pipelineVars, butServerVars, busy, preferred_port,
                   dev_server_port, dev_server_process, listening_on,
                   scan_in_use>>

\* wait loop 363, 403, 434, 452: return False, the child is left as it is
LoopFails(t) ==
    /\ s_pc[t] = "wait"
    /\ Running(t)
    /\ \E reason \in LoopFailures :
         start_result' = [start_result EXCEPT ![t] = reason]
    /\ s_pc' = [s_pc EXCEPT ![t] = "returned"]
    /\ UNCHANGED <<pipelineVars, butServerVars, busy, preferred_port,
                   dev_server_port, dev_server_process, listening_on,
                   scan_in_use, answered_by>>

\* wait loop 457-472: the child was found dead
ChildFoundDead(t) ==
    /\ s_pc[t] = "wait"
    /\ dev_server_process[t] = "exited"
    /\ s_pc' = [s_pc EXCEPT ![t] = "returned"]
    /\ start_result' = [start_result EXCEPT ![t] = "child_exit"]
    /\ UNCHANGED <<pipelineVars, butServerVars, busy, preferred_port,
                   dev_server_port, dev_server_process, listening_on,
                   scan_in_use, answered_by>>

\* 490-536: the overall timeout passed; a child still alive is killed
StartTimeout(t) ==
    /\ s_pc[t] = "wait"
    /\ s_pc' = [s_pc EXCEPT ![t] = "returned"]
    /\ start_result' = [start_result EXCEPT ![t] = "timeout"]
    /\ dev_server_process' =
           [dev_server_process EXCEPT ![t] = IF Running(t) THEN "killed" ELSE @]
    /\ listening_on' = [listening_on EXCEPT ![t] = 0]
    /\ UNCHANGED <<pipelineVars, butServerVars, busy, preferred_port,
                   dev_server_port, scan_in_use, answered_by>>

\* capture_before_screenshots 1489-1530 after start_dev_server returned:
\* False returns at once; True ends in stop_dev_server (545-560) with or
\* without URLs. The implementation step follows.
BeforeCaptureEnds(t) ==
    /\ s_pc[t] = "returned"
    /\ s_pc' = [s_pc EXCEPT ![t] = "implementation"]
    /\ IF start_result[t] = "ready"
       THEN /\ dev_server_process' =
                   [dev_server_process EXCEPT ![t] = IF Running(t) THEN "stopped" ELSE @]
            /\ listening_on' = [listening_on EXCEPT ![t] = 0]
            /\ dev_server_port' = [dev_server_port EXCEPT ![t] = 0]
       ELSE UNCHANGED <<dev_server_process, listening_on, dev_server_port>>
    /\ UNCHANGED <<pipelineVars, butServerVars, busy, preferred_port,
                   scan_in_use, start_result, answered_by>>

NextDevServer ==
    \E t \in Tasks :
        \/ ScanPorts(t)
        \/ Install(t)
        \/ Launch(t)
        \/ ChildListen(t)
        \/ ChildExit(t)
        \/ ProbeAnswered(t)
        \/ LoopFails(t)
        \/ ChildFoundDead(t)
        \/ StartTimeout(t)
        \/ BeforeCaptureEnds(t)

SpecDevServer == InitDevServer /\ [][NextDevServer]_vars

\* two tasks run their before captures at the same time, as the prefork
\* pool of a Celery worker lets them (celery_app.py sets no concurrency)
InitPortRace ==
    /\ PipelineIdle
    /\ IdleButServer
    /\ busy \in SUBSET {3000, 3001}
    /\ s_pc = [t \in Tasks |-> "idle"]
    /\ preferred_port = [t \in Tasks |-> 0]
    /\ dev_server_port = [t \in Tasks |-> 0]
    /\ dev_server_process = [t \in Tasks |-> "none"]
    /\ listening_on = [t \in Tasks |-> 0]
    /\ scan_in_use = [t \in Tasks |-> {}]
    /\ start_result = [t \in Tasks |-> "none"]
    /\ answered_by = [t \in Tasks |-> 0]

SpecPortRace == InitPortRace /\ [][NextDevServer]_vars

\* =============================================== start_dev_server wait loop
\* One action is one iteration of the loop (screenshot_tools.py 331-488):
\* read at most one line of the child's output, classify it, make one HTTP
\* request, test for the hangs and for a dead child, sleep.

\* what a line of the child's output can be to the loop (341-383)
Lines == {"none", "error", "ready", "compiling", "compiled", "other"}

\* what the HTTP request can do (408-441)
HttpOutcomes == {"answered", "status5xx", "timeout", "refused", "failed"}

Cap(n, limit) == IF n > limit THEN limit + 1 ELSE n

\* the silent-hang test without the ready banner (mutation of silent_hang)
silent_hang_without_banner(ready, silence, timeouts) ==
    silence > silence_limit /\ timeouts > 0

\* 444-446: if server_ready_seen: time_since_output > 40 and
\* consecutive_timeouts > 0
silent_hang(ready, silence, timeouts) ==
    ready /\ silence > silence_limit /\ timeouts > 0

\* (a count that only a successful request would reset)
count_timeouts_kept(count, http) ==
    IF http = "timeout" THEN count + 1 ELSE count

\* 417-438: consecutive_timeouts after an HTTP request: one more after a
\* timeout, 0 after a 5xx answer, a refused connection or another error
count_timeouts(count, http) ==
    IF http = "timeout" THEN count + 1 ELSE 0

InitLoop ==
    /\ PipelineIdle
    /\ IdleButLoop
    /\ l_result = "none"
    /\ loop_elapsed = 0
    /\ server_ready_seen = FALSE
    /\ compilation_in_progress = FALSE
    /\ since_compile = 0
    /\ consecutive_timeouts = 0
    /\ since_output = 0
    /\ since_banner = 0
    /\ any_timeout = FALSE
    /\ last_http = "none"
    /\ silence_at_check = 0
    /\ pipe_lines = 0

\* the state after an iteration that took d ticks and ended with result r
LoopStep(r, d, ready, compiling, sc, ct, so, http, silence) ==
    /\ l_result' = r
    /\ loop_elapsed' = loop_elapsed + d
    /\ server_ready_seen' = ready
    /\ compilation_in_progress' = compiling
    /\ since_compile' = IF compiling THEN Cap(sc + d, compile_patience) ELSE 0
    /\ consecutive_timeouts' = ct
    /\ since_output' = Cap(so + d, silence_limit)
    /\ since_banner' = IF ready
                       THEN Cap((IF server_ready_seen THEN since_banner ELSE 0) + d,
                                silence_limit)
                       ELSE 0
    /\ any_timeout' = (any_timeout \/ http = "timeout")
    /\ last_http' = http
    /\ silence_at_check' = silence

Iteration ==
    /\ l_result = "none"
    /\ loop_elapsed < start_timeout
    /\ \E line \in Lines, http \in HttpOutcomes, latency \in 0..MaxLatency,
          dead \in BOOLEAN :
        LET so == IF line # "none" THEN 0 ELSE since_output
            ready == server_ready_seen \/ line = "ready"
            compiling == IF line \in {"ready", "compiled"} THEN FALSE
                         ELSE IF line = "compiling" THEN TRUE
                         ELSE compilation_in_progress
            sc == IF line = "compiling" THEN 0 ELSE since_compile
            http_timeout == IF ready THEN http_timeout_ready ELSE http_timeout_early
            d == IF http = "timeout" THEN http_timeout ELSE latency
            ct == count_timeouts(consecutive_timeouts, http)
            silence == Cap(so + d, silence_limit)
        IN  IF line = "error"
            THEN LoopStep("compile_error", 0, ready, compiling, sc,
                          consecutive_timeouts, so, "skipped", 0)
            ELSE IF compiling
            THEN IF sc < compile_patience
                 THEN LoopStep("none", latency, ready, compiling, sc,
                               consecutive_timeouts, so, "skipped", 0)
                 ELSE LoopStep("compile_hang", 0, ready, compiling, sc,
                               consecutive_timeouts, so, "skipped", 0)
            ELSE IF http = "answered"
            THEN LoopStep("ready", d, ready, compiling, sc,
                          consecutive_timeouts, so, http, 0)
            ELSE IF ct >= timeouts_limit
            THEN LoopStep("runtime_hang", d, ready, compiling, sc, ct, so, http,
                          silence)
            ELSE IF silent_hang(ready, silence, ct)
            THEN LoopStep("silent_hang", d, ready, compiling, sc, ct, so, http,
                          silence)
            ELSE IF dead
            THEN LoopStep("drain_exit", d, ready, compiling, sc, ct, so, http,
                          silence)
            ELSE LoopStep("none", d, ready, compiling, sc, ct, so, http,
                          silence)
    /\ pipe_lines' \in IF l_result' = "drain_exit" THEN 0..MaxPipe ELSE {0}
    /\ UNCHANGED <<pipelineVars, butLoopVars>>

\* the loop variables the drains leave alone
loopLocals == <<loop_elapsed, server_ready_seen, compilation_in_progress,
                since_compile, consecutive_timeouts, since_output,
                since_banner, any_timeout, last_http, silence_at_check>>

\* 331, 491-494: the while condition failed; the child is still running and
\* has left some lines in the pipe
LoopTimeout ==
    /\ l_result = "none"
    /\ loop_elapsed >= start_timeout
    /\ l_result' = "drain_timeout"
    /\ pipe_lines' \in 0..MaxPipe
    /\ UNCHANGED <<pipelineVars, butLoopVars, loopLocals>>

\* the running child writes another line while the output is drained
ChildPrints ==
    /\ l_result = "drain_timeout"
    /\ pipe_lines < MaxPipe
    /\ pipe_lines' = pipe_lines + 1
    /\ UNCHANGED <<pipelineVars, butLoopVars, loopLocals, l_result>>

\* 461-462, 493-494: one read_output of "while read_output(): pass", which
\* goes on as long as the select of read_output finds a line within 0.1 s.
\* After the last read of the drain at 461 the return of 472; after the
\* last read of the drain at 493 the requests to the port found in the
\* output (499-518), which return True when one is answered, and the kill
\* and the return of 530-539 otherwise
DrainRead ==
    /\ l_result \in {"drain_exit", "drain_timeout"}
    /\ IF pipe_lines > 0
       THEN /\ pipe_lines' = pipe_lines - 1
            /\ UNCHANGED l_result
       ELSE /\ l_result' \in IF l_result = "drain_exit" THEN {"child_exit"}
                             ELSE {"timeout", "ready_detected"}
            /\ UNCHANGED pipe_lines
    /\ UNCHANGED <<pipelineVars, butLoopVars, loopLocals>>

NextLoop == Iteration \/ LoopTimeout \/ ChildPrints \/ DrainRead

SpecLoop == InitLoop /\ [][NextLoop]_vars

\* an iteration in which time moves on or the loop is left: every iteration
\* sleeps 2 s or waits for its HTTP request
TimePasses ==
    Iteration /\ (loop_elapsed' > loop_elapsed \/ l_result' # "none")

\* the worker runs start_dev_server without being held up: the iterations
\* take time, and the code after the loop is run
SpecLoopFair ==
    /\ SpecLoop
    /\ WF_vars(TimePasses)
    /\ WF_vars(LoopTimeout)
    /\ WF_vars(DrainRead)

\* ===================================================== generate_branch_name
\* Strings are sequences of one-character strings.

Rep(c, n) == [i \in 1..n |-> c]

\* str.lower on the characters that occur
lower(c) == IF c = "A" THEN "a" ELSE IF c = "D" THEN "d" ELSE c

lower_str(s) == [i \in DOMAIN s |-> lower(s[i])]

\* str.replace(old, new) for single characters
replace(s, old, new) == [i \in DOMAIN s |-> IF s[i] = old THEN new ELSE s[i]]

\* re.sub(r'[^a-z0-9\s-]', '', slug)
KeptChars == {"a", "b", "d", "1", "2", " ", "-"}

remove_special(s) == SelectSeq(s, LAMBDA c : c \in KeptChars)

\* re.sub(cls+, rep, s) for a class of characters: every maximal run of
\* characters of the class becomes one rep
RECURSIVE squeeze(_, _, _)
squeeze(s, cls, r) ==
    IF s = <<>> THEN <<>>
    ELSE IF Head(s) \in cls
    THEN IF Len(s) > 1 /\ s[2] \in cls
         THEN squeeze(Tail(s), cls, r)
         ELSE <<r>> \o squeeze(Tail(s), cls, r)
    ELSE <<Head(s)>> \o squeeze(Tail(s), cls, r)

\* str.strip(chars)
RECURSIVE lstrip_of(_, _)
lstrip_of(s, chars) ==
    IF s # <<>> /\ Head(s) \in chars THEN lstrip_of(Tail(s), chars) ELSE s

RECURSIVE rstrip_of(_, _)
rstrip_of(s, chars) ==
    IF s # <<>> /\ s[Len(s)] \in chars
    THEN rstrip_of(SubSeq(s, 1, Len(s) - 1), chars)
    ELSE s

strip_of(s, chars) == rstrip_of(lstrip_of(s, chars), chars)

\* s.rsplit(c, 1)[0]: what precedes the last c, all of s without one
rsplit_head(s, c) ==
    LET found == {i \in DOMAIN s : s[i] = c} IN
      IF found = {} THEN s
      ELSE SubSeq(s, 1, (CHOOSE i \in found : \A j \in found : j <= i) - 1)

\* app_mentioned.py 62-64
truncate(s) ==
    IF Len(s) > max_length THEN rsplit_head(SubSeq(s, 1, max_length), "-") ELSE s

\* app_mentioned.py 56-60, 63-64
slug_of(description) ==
    truncate(strip_of(squeeze(squeeze(remove_special(lower_str(description)),
                                      {" "}, "-"),
                              {"-"}, "-"),
                      {"-"}))

\* app_mentioned.py 46, 67
base_branch_name(dog, date, description) ==
    replace(lower_str(dog), "_", "-") \o <<"/">> \o date \o <<"-">>
        \o slug_of(description)

\* str(suffix) for the suffixes that occur
Digit(n) == IF n = 2 THEN "2" ELSE IF n = 3 THEN "3" ELSE IF n = 4 THEN "4"
            ELSE IF n = 5 THEN "5" ELSE IF n = 6 THEN "6" ELSE "7"

\* f"{base_branch_name}-{suffix}"
with_suffix(base, n) == base \o <<"-", Digit(n)>>

\* branch_exists that finds no branch (mutation of branch_exists)
branch_exists_never(name, existing) == FALSE

\* GitHubClient.branch_exists (github_client.py 206-220), the forge answering
branch_exists(name, existing) == name \in existing

DogStrings == {<<"D", "_", "1">>, <<"d", "2">>}

Dates == {<<"2", "1">>}

Descriptions ==
    {Rep(w, n) \o sep \o Rep("b", m) :
        w \in {"a", "A"}, n \in {0, 2, max_length},
        sep \in {<<>>, <<" ">>, <<" ", " ">>, <<"-", " ">>, <<"_">>, <<"!", " ">>},
        m \in {0, 1, 3}}

\* the names that can be taken: the base and its first suffixes
Candidates(base) == {base} \cup {with_suffix(base, n) : n \in 2..MaxSuffix}

\* after lines 46-71: the base is the first candidate
InitBranch ==
    /\ PipelineIdle
    /\ IdleButBranch
    /\ bn_dog_name \in DogStrings
    /\ date_prefix \in Dates
    /\ task_description \in Descriptions
    /\ branches \in SUBSET Candidates(base_branch_name(bn_dog_name, date_prefix,
                                                      task_description))
    /\ branch_name = base_branch_name(bn_dog_name, date_prefix, task_description)
    /\ suffix = 2
    /\ tried = <<>>
    /\ bn_pc = "checking"
    /\ live_branches = <<>>

\* 72-74: the candidate exists, the next one carries the suffix
BranchTaken ==
    /\ bn_pc = "checking"
    /\ branch_exists(branch_name, branches)
    /\ branch_name' = with_suffix(base_branch_name(bn_dog_name, date_prefix,
                                                   task_description), suffix)
    /\ tried' = Append(tried, suffix)
    /\ suffix' = suffix + 1
    /\ UNCHANGED <<pipelineVars, butBranchVars, bn_dog_name, date_prefix,
                   task_description, branches, bn_pc, live_branches>>

\* 72, 76: the candidate does not exist and is returned
BranchFree ==
    /\ bn_pc = "checking"
    /\ ~branch_exists(branch_name, branches)
    /\ bn_pc' = "returned"
    /\ UNCHANGED <<pipelineVars, butBranchVars, bn_dog_name, date_prefix,
                   task_description, branches, branch_name, suffix, tried,
                   live_branches>>

NextBranch == BranchTaken \/ BranchFree

SpecBranch == InitBranch /\ [][NextBranch]_vars

\* Two mentions with the same dog, date and description, one handled after
\* the other, and the workers of their tasks (specification SpecBranchRace).

\* app_mentioned.py 177-206: the name is returned and the task enqueued with
\* it; then the next mention is handled, from the base name again
EnqueueWithBranch ==
    /\ bn_pc = "returned"
    /\ live_branches' = Append(live_branches,
                               [name |-> branch_name, pushed |-> FALSE])
    /\ IF Len(live_branches) + 1 < Cardinality(Handlers)
       THEN /\ bn_pc' = "checking"
            /\ branch_name' = base_branch_name(bn_dog_name, date_prefix,
                                               task_description)
            /\ suffix' = 2
            /\ tried' = <<>>
       ELSE /\ bn_pc' = "done"
            /\ UNCHANGED <<branch_name, suffix, tried>>
    /\ UNCHANGED <<pipelineVars, butBranchVars, bn_dog_name, date_prefix,
                   task_description, branches>>

\* worker_tasks.py 283-291: the worker of a task pushes its branch with the
\* placeholder commit; from then on the forge knows the name
PushBranch(i) ==
    /\ i \in DOMAIN live_branches
    /\ ~live_branches[i].pushed
    /\ branches' = branches \cup {live_branches[i].name}
    /\ live_branches' = [live_branches EXCEPT ![i].pushed = TRUE]
    /\ UNCHANGED <<pipelineVars, butBranchVars, bn_dog_name, date_prefix,
                   task_description, branch_name, suffix, tried, bn_pc>>

NextBranchRace ==
    \/ BranchTaken
    \/ BranchFree
    \/ EnqueueWithBranch
    \/ \E i \in 1..Cardinality(Handlers) : PushBranch(i)

SpecBranchRace == InitBranch /\ [][NextBranchRace]_vars

\* ================================================================= PR title

\* the cut with the slice left out (mutation of cut_at_word)
cut_at_word_unsliced(s, n) == rsplit_head(s, " ")

\* s[:n].rsplit(' ', 1)[0] (dog.py 182 and 187, worker_tasks.py 348)
cut_at_word(s, n) ==
    rsplit_head(SubSeq(s, 1, IF Len(s) < n THEN Len(s) ELSE n), " ")

\* stands for the answer when call_claude_api raised (dog.py 184)
Failed == <<"failed">>

\* generate_pr_title (dog.py 177-187): the cleaned and cut answer, or the cut
\* description when the call raised
generate_pr_title(description, answer) ==
    IF answer = Failed
    THEN cut_at_word(description, title_max_length)
    ELSE LET title == strip_of(strip_of(strip_of(answer, {" "}), {"\""}), {"'"})
         IN  IF Len(title) > title_max_length
             THEN cut_at_word(title, title_max_length)
             ELSE title

\* worker_tasks.py 341-349: the prefix, and the cut should the whole exceed 70
prefixed_title(text) ==
    IF Len(PREFIX \o text) > MAX_TITLE_LENGTH
    THEN PREFIX \o cut_at_word(text, MAX_TITLE_LENGTH - Len(PREFIX))
    ELSE PREFIX \o text

\* texts of every length around the limits, with and without spaces and
\* quotes
Texts ==
    {q \o Rep("a", n) \o sep \o Rep("b", m) \o q :
        q \in {<<>>, <<"\"">>, <<"'">>},
        n \in {0, 1, title_max_length - 1, title_max_length, MAX_TITLE_LENGTH},
        sep \in {<<>>, <<" ">>},
        m \in {0, 1, title_max_length + 1}}

InitTitle ==
    /\ PipelineIdle
    /\ IdleButTitle
    /\ title_task \in Texts
    /\ model_answer = <<>>
    /\ pr_title_text = <<>>
    /\ pr_title = <<>>
    /\ title_pc = "generate"

\* worker_tasks.py 329: dog.generate_pr_title(task_description, max_length=57)
GenerateTitle ==
    /\ title_pc = "generate"
    /\ \E answer \in Texts \cup {Failed} :
         /\ model_answer' = answer
         /\ pr_title_text' = generate_pr_title(title_task, answer)
    /\ title_pc' = "build"
    /\ UNCHANGED <<pipelineVars, butTitleVars, title_task, pr_title>>

\* worker_tasks.py 337-378: the title is built and passed to the forge
CreateWithTitle ==
    /\ title_pc = "build"
    /\ pr_title' = prefixed_title(pr_title_text)
    /\ title_pc' = "created"
    /\ UNCHANGED <<pipelineVars, butTitleVars, title_task, model_answer,
                   pr_title_text>>

NextTitle == GenerateTitle \/ CreateWithTitle

SpecTitle == InitTitle /\ [][NextTitle]_vars

\* ========================================================== feedback passes
\* The pipeline with the listener filling the thread's list and the three
\* drains (after implementation, after self-review, after testing) spelled
\* out: what dog.run_task does when the pass leaves the tree as it was.

\* Dog.run_task (dog.py 343): allow_no_changes: bool = False, which the
\* calls at worker_tasks.py 457, 475 and 495 leave as it is
allow_no_changes_default == FALSE

\* dog.py 467-483: without changes run_task returns True when allowed, and
\* raises otherwise
no_changes_returns(allow) == allow

InitFeedback ==
    /\ PipelineIdle
    /\ IdleButFeedback
    /\ feedback_pass = "none"

\* the drains of worker_tasks.py 446-457, 464-475 and 484-499
FeedbackPass ==
    /\ wpc \in {"fb_impl", "fb_review", "fb_final"}
    /\ LET fb == check_for_feedback(thread_messages, message_pointer)
       IN IF fb = <<>>
          THEN /\ prompts' = prompts
               /\ wpc' = NextStep(wpc)
               /\ exc' = exc
               /\ feedback_pass' = feedback_pass
               /\ tree' = tree
          ELSE /\ prompts' = Append(prompts,
                      [at |-> wpc, text |-> format_feedback_for_prompt(fb)])
               /\ \E changed \in BOOLEAN :
                    /\ feedback_pass' = IF changed THEN "changed" ELSE "unchanged"
                    /\ tree' = IF changed THEN commit(tree) ELSE tree
                    /\ IF changed \/ no_changes_returns(allow_no_changes_default)
                       THEN \/ /\ wpc' = NextStep(wpc)
                               /\ exc' = exc
                            \/ /\ changed \/ wpc = "fb_final"
                               /\ \E kind \in ExcKinds : Raise(kind)
                       ELSE Raise("logic")
    /\ message_pointer' = new_pointer(thread_messages, message_pointer)
    /\ UNCHANGED <<butFeedbackVars, storeVars, active0, intakeVars, chatVars,
                   retries, slack_client, pr_info, current_phase,
                   before_screenshots, work_dir, forgeVars, posts, result,
                   clearedStamp, rmtree_failed>>

NextFeedback ==
    \/ CapIntake
    \/ InboxAppend
    \/ JobStart
    \/ StepStart
    \/ StepInit
    \/ Checkpoint
    \/ StepPlanning
    \/ StepBeforeShots
    \/ StepImplementation
    \/ FeedbackPass
    \/ StepSelfReview
    \/ StepTesting
    \/ StepAfterShots
    \/ StepFinalize
    \/ StepUpdatePR
    \/ StepMarkReady
    \/ StepPostDone
    \/ StepFreeDone
    \/ FailPost
    \/ FailFree
    \/ Cleanup
    \/ RetryStart

SpecFeedback == InitFeedback /\ [][NextFeedback]_vars

\* ================================================= handle_cancel_task, steps
\* The handler one store or chat command at a time, with a store that can
\* stop answering between two commands.

InitHandler ==
    /\ PipelineIdle
    /\ IdleButHandler
    /\ ch_pc = "idle"
    /\ ch_clicks = 0
    /\ redis_client \in BOOLEAN
    /\ store_up \in BOOLEAN
    /\ key_set = FALSE
    /\ key_ttl = FALSE
    /\ ack_text = "button"
    /\ run_rewritten = FALSE
    /\ run_error = FALSE
    /\ cancelled_by = "none"

\* the connection to the store breaks or comes back
StoreFlips ==
    /\ ch_clicks <= MaxClicks
    /\ store_up' = ~store_up
    /\ UNCHANGED <<pipelineVars, butHandlerVars, ch_pc, ch_clicks, redis_client,
                   key_set, key_ttl, ack_text, run_rewritten, run_error, cancelled_by>>

\* cancel_task.py 43-56: ack and the payload of the click
ClickReceived ==
    /\ ch_pc = "idle"
    /\ ch_clicks < MaxClicks
    /\ ch_clicks' = ch_clicks + 1
    /\ ch_pc' = "users_info"
    /\ run_rewritten' = FALSE
    /\ run_error' = FALSE
    /\ cancelled_by' = "none"
    /\ UNCHANGED <<pipelineVars, butHandlerVars, redis_client, store_up, key_set,
                   key_ttl, ack_text>>

\* 58-77 and 119-130: the user's name, "Unknown User" when the lookup fails;
\* with no client the error is posted (the post may fail) and the handler
\* ends
NameLookedUp ==
    /\ ch_pc = "users_info"
    /\ cancelled_by' \in {"name", "Unknown User"}
    /\ IF redis_client
       THEN /\ ch_pc' = "hset"
            /\ run_error' = run_error
       ELSE /\ ch_pc' = "idle"
            /\ run_error' \in BOOLEAN
    /\ UNCHANGED <<pipelineVars, butHandlerVars, ch_clicks, redis_client,
                   store_up, key_set, key_ttl, ack_text, run_rewritten>>

\* 79-86: redis_client.time() and hset; either raises when the store does
\* not answer
HsetFlag ==
    /\ ch_pc = "hset"
    /\ IF store_up
       THEN /\ key_set' = TRUE
            /\ ch_pc' = "expire"
       ELSE /\ key_set' = key_set
            /\ ch_pc' = "error"
    /\ UNCHANGED <<pipelineVars, butHandlerVars, ch_clicks, redis_client,
                   store_up, key_ttl, ack_text, run_rewritten, run_error,
                   cancelled_by>>

\* 88: expire(cancellation_key, 3600)
ExpireFlag ==
    /\ ch_pc = "expire"
    /\ IF store_up
       THEN /\ key_ttl' = TRUE
            /\ ch_pc' = "update"
       ELSE /\ key_ttl' = key_ttl
            /\ ch_pc' = "error"
    /\ UNCHANGED <<pipelineVars, butHandlerVars, ch_clicks, redis_client,
                   store_up, key_set, ack_text, run_rewritten, run_error,
                   cancelled_by>>

\* 92-107: chat_update; a failure is logged
UpdateAck ==
    /\ ch_pc = "update"
    /\ ch_pc' = "idle"
    /\ \E ok \in BOOLEAN :
         /\ run_rewritten' = ok
         /\ ack_text' = IF ok THEN "requested" ELSE ack_text
    /\ UNCHANGED <<pipelineVars, butHandlerVars, ch_clicks, redis_client,
                   store_up, key_set, key_ttl, run_error, cancelled_by>>

\* 109-118: the except arm posts "Could not cancel task"; a failure of the
\* post is logged
PostCouldNotCancel ==
    /\ ch_pc = "error"
    /\ ch_pc' = "idle"
    /\ run_error' \in BOOLEAN
    /\ UNCHANGED <<pipelineVars, butHandlerVars, ch_clicks, redis_client,
                   store_up, key_set, key_ttl, ack_text, run_rewritten,
                   cancelled_by>>

NextHandler ==
    \/ StoreFlips
    \/ ClickReceived
    \/ NameLookedUp
    \/ HsetFlag
    \/ ExpireFlag
    \/ UpdateAck
    \/ PostCouldNotCancel

SpecHandler == InitHandler /\ [][NextHandler]_vars

\* ============================================== checkpoints without a store
\* The pipeline with a CancellationManager that may have no client, and a
\* store that may stop answering the worker and answer again.

InitOutage ==
    /\ PipelineIdle
    /\ IdleButOutage
    /\ cm_client \in BOOLEAN
    /\ cm_up \in BOOLEAN
    /\ cp_query = "none"

\* the worker's connection to the store breaks or comes back
WorkerStoreFlips ==
    /\ wpc \notin {"idle", "done"}
    /\ cm_up' = ~cm_up
    /\ UNCHANGED <<pipelineVars, butOutageVars, cm_client, cp_query>>

\* check_cancellation(phase) (worker_tasks.py 141-150) over is_cancelled
\* with its failure arms
CheckpointAt ==
    /\ CheckpointPhase(wpc) # "none"
    /\ current_phase' = CheckpointPhase(wpc)
    /\ wpc' = IF is_cancelled_at(cm_client, cm_up, cancel_key)
              THEN "cancel_pr"
              ELSE NextStep(wpc)
    /\ cp_query' = IF cm_client /\ cm_up THEN "answered" ELSE "failed"
    /\ UNCHANGED <<butOutageVars, cm_client, cm_up, storeVars, active0,
                   intakeVars, chatVars, retries, slack_client, pr_info, exc,
                   message_pointer, before_screenshots, prompts, work_dir, tree,
                   forgeVars, posts, result, clearedStamp, rmtree_failed>>

NextOutage ==
    \/ CapIntake
    \/ CancelClick
    \/ WorkerStoreFlips
    \/ JobStart
    \/ StepStart
    \/ StepInit
    \/ CheckpointAt
    \/ StepPlanning
    \/ StepBeforeShots
    \/ StepImplementation
    \/ StepFeedback
    \/ StepSelfReview
    \/ StepTesting
    \/ StepFinalFeedback
    \/ StepAfterShots
    \/ StepFinalize
    \/ StepUpdatePR
    \/ StepMarkReady
    \/ StepPostDone
    \/ StepFreeDone
    \/ CancelPR
    \/ CancelPost
    \/ CancelClear
    \/ CancelFree
    \/ FailPost
    \/ FailFree
    \/ Cleanup
    \/ RetryStart

SpecOutage == InitOutage /\ [][NextOutage]_vars

\* ============================================== select_dog and mark_dog_busy
\* Two runs of handle_app_mention, each from select_dog (line 162) to
\* mark_dog_busy (line 183), with the commands they send to the store one by
\* one and a store that comes and goes (specification SpecSelector).

\* task_id of the mention a run handles: one per thread, none of Others
task_id_of(h) == MaxOthers + h

\* (a count of 1 for a query that raised)
get_active_task_count_raising(client, up, n) ==
    IF ~client THEN 0 ELSE IF up THEN n ELSE 1

\* get_active_task_count with its reach of the store: 0 without a client,
\* scard(key) or 0 when the store answers, 0 when the command raises
get_active_task_count_at(client, up, n) ==
    IF ~client THEN 0 ELSE IF up THEN n ELSE 0

\* the pipeline's variables other than the active sets
butActiveVars == <<active0, cancel_key, thread_tasks_key, thread_messages,
                   intakeVars, chatVars, jobVars>>

InitSelector ==
    /\ PipelineInit
    /\ IdleButSelector
    /\ ds_client \in BOOLEAN
    /\ ds_up \in BOOLEAN
    /\ h_pc = [h \in Handlers |-> "select"]
    /\ h_dog_loads = [h \in Handlers |-> <<>>]
    /\ h_failed = [h \in Handlers |-> {}]
    /\ selected_dog = [h \in Handlers |-> "none"]

\* the store becomes unreachable, or reachable again
SelectorStoreFlips ==
    /\ \E h \in Handlers : h_pc[h] # "done"
    /\ ds_up' = ~ds_up
    /\ UNCHANGED <<pipelineVars, butSelectorVars, ds_client, h_pc,
                   h_dog_loads, h_failed, selected_dog>>

\* select_dog, lines 63-71 and 93-96: with a client the loads are asked
\* for; without one the first dog is returned
SelectDog(h) ==
    /\ h_pc[h] = "select"
    /\ IF ds_client
       THEN /\ h_pc' = [h_pc EXCEPT ![h] = "scard"]
            /\ UNCHANGED selected_dog
       ELSE /\ h_pc' = [h_pc EXCEPT ![h] = "mark"]
            /\ selected_dog' = [selected_dog EXCEPT ![h] = Dogs[1]]
    /\ UNCHANGED <<pipelineVars, butSelectorVars, ds_client, ds_up,
                   h_dog_loads, h_failed>>

\* lines 75-77: one get_active_task_count, for the next dog of the roster
QueryLoad(h) ==
    /\ h_pc[h] = "scard"
    /\ LET dog == Dogs[Len(h_dog_loads[h]) + 1]
           active_count ==
               get_active_task_count_at(ds_client, ds_up,
                                        Cardinality(active_tasks[dog]))
       IN /\ h_dog_loads' = [h_dog_loads EXCEPT
                 ![h] = Append(@, [dog |-> dog, load |-> active_count])]
          /\ h_failed' = [h_failed EXCEPT
                 ![h] = IF ds_up THEN @ ELSE @ \cup {dog}]
          /\ h_pc' = [h_pc EXCEPT
                 ![h] = IF Len(h_dog_loads[h]) + 1 = Len(Dogs)
                        THEN "sort" ELSE "scard"]
    /\ UNCHANGED <<pipelineVars, butSelectorVars, ds_client, ds_up,
                   selected_dog>>

\* lines 81-88: the sort and the return of the first pair's dog
SortAndReturn(h) ==
    /\ h_pc[h] = "sort"
    /\ selected_dog' = [selected_dog EXCEPT
           ![h] = sort_by_load(h_dog_loads[h])[1].dog]
    /\ h_pc' = [h_pc EXCEPT ![h] = "mark"]
    /\ UNCHANGED <<pipelineVars, butSelectorVars, ds_client, ds_up,
                   h_dog_loads, h_failed>>

\* app_mentioned.py 183, dog_selector.py 98-118: mark_dog_busy; without a
\* client a warning, with a store that does not answer an error in the log
MarkDogBusy(h) ==
    /\ h_pc[h] = "mark"
    /\ active_tasks' =
           IF ds_client /\ ds_up
           THEN mark_dog_busy(selected_dog[h], task_id_of(h))
           ELSE active_tasks
    /\ h_pc' = [h_pc EXCEPT ![h] = "done"]
    /\ UNCHANGED <<butActiveVars, butSelectorVars, ds_client, ds_up,
                   h_dog_loads, h_failed, selected_dog>>

NextSelector ==
    \/ SelectorStoreFlips
    \/ \E h \in Handlers : SelectDog(h)
    \/ \E h \in Handlers : QueryLoad(h)
    \/ \E h \in Handlers : SortAndReturn(h)
    \/ \E h \in Handlers : MarkDogBusy(h)

SpecSelector == InitSelector /\ [][NextSelector]_vars

\* ======================================================== pipeline phases
\* The phase of the state machine a position of the job belongs to: a phase
\* ends with the checkpoint that names it
PhaseOf(p, r) ==
    CASE p \in {"start", "init", "cp_init"} -> "init"
      [] p \in {"planning", "cp_planning"} -> "planning"
      [] p \in {"before_shots", "implementation", "cp_impl"} -> "implementation"
      [] p \in {"fb_impl", "self_review", "cp_review"} -> "self_review"
      [] p \in {"fb_review", "testing", "fb_final"} -> "testing"
      [] p \in {"after_shots", "finalize", "update_pr", "mark_ready",
                "post_done", "free_done"} -> "finalization"
      [] p \in {"cancel_pr", "cancel_post", "cancel_clear", "cancel_free"} -> "cancelled"
      [] p \in {"fail_post", "fail_free"} -> "failed"
      [] p \in {"cleanup", "ended", "retry_wait"} ->
             (CASE r = "success" -> "done"
                [] r = "cancelled" -> "cancelled"
                [] OTHER -> "failed")
      [] OTHER -> "none"

Phase == PhaseOf(wpc, result)

PhaseSeq == <<"init", "planning", "implementation", "self_review", "testing",
              "finalization">>

PhaseAfter(ph) ==
    IF \E i \in 1..(Len(PhaseSeq) - 1) : PhaseSeq[i] = ph
    THEN PhaseSeq[(CHOOSE i \in 1..(Len(PhaseSeq) - 1) : PhaseSeq[i] = ph) + 1]
    ELSE "none"

JobOver == wpc = "ended"

\* ================================================================= claims

\* C1: with the cancel flag set while the pipeline is in a phase P of init,
\* planning, implementation, self_review, testing, the pipeline does not go
\* on to the phase after P (a checkpoint stands between every two phases,
\* between testing and finalization too).
C1_NoNextPhaseUnderCancel ==
    [][(is_cancelled(cancel_key) /\ PhaseAfter(Phase) # "none") =>
          PhaseOf(wpc', result') # PhaseAfter(Phase)]_vars

\* C2: when the job is over, a PR that was created carries exactly one
\* terminal annotation (ready, cancelled or failed).
C2_OneTerminalAnnotation ==
    (JobOver /\ pr.exists) => Len(annotations) = 1

\* C3: once the lifecycle of the task is over (the job has ended, or the
\* intake gave up), every active set is what it was before the mention.
C3_ActiveSetsRestored ==
    (JobOver \/ ipc = "intake_failed") => active_tasks = active0

\* C4: a task whose job is over has exactly one final thread post.
C4_ExactlyOneFinalPost ==
    JobOver => Len(posts) = 1

\* C5: while the task is live (queued, running the steps of an attempt, or
\* waiting for a retry) it is in the active set of its dog and of no other.
C5_LiveTaskInItsDogsSet ==
    (queued \/ wpc = "retry_wait" \/ \E i \in 1..Len(StepOrder) : StepOrder[i] = wpc)
        => /\ T \in active_tasks[dog_name]
           /\ \A d \in DogNames \ {dog_name} : T \notin active_tasks[d]

\* C6: the key thread_tasks:{thread_ts} is present exactly when the pipeline
\* is in a phase from planning to finalization.
C6_ThreadKeyIffPlanningToFinalization ==
    thread_tasks_key <=> Phase \in {"planning", "implementation", "self_review",
                                    "testing", "finalization"}

\* C7: when self-review starts, every human message posted while the
\* implementation of this attempt was running is in the inbox and was given
\* to a re-implementation call, inside the feedback preamble.
C7_FeedbackReachesReimplementation ==
    wpc = "self_review" =>
        \A i \in 1..Len(posted) :
            (posted[i].at = "implementation" /\ posted[i].attempt = retries) =>
                /\ \E k \in 1..Len(thread_messages) : thread_messages[k] = i
                /\ \E k \in 1..Len(prompts) :
                       /\ prompts[k].at = "fb_impl"
                       /\ prompts[k].text.preamble = "HUMAN FEEDBACK"
                       /\ \E m \in 1..Len(prompts[k].text.feedback) :
                              prompts[k].text.feedback[m] = i

\* C8: within an attempt the phases follow each other in the fixed order,
\* none skipped or repeated; the sequence is left only for done, cancelled
\* or failed, done only from finalization; a terminal state is left only by
\* the next attempt, which starts at init.
C8_Allowed ==
    {<<PhaseSeq[i], PhaseSeq[i + 1]>> : i \in 1..(Len(PhaseSeq) - 1)}
    \cup {<<PhaseSeq[i], t>> : i \in 1..Len(PhaseSeq), t \in {"cancelled", "failed"}}
    \cup {<<"finalization", "done">>, <<"none", "init">>}

C8_PhaseOrder ==
    [][PhaseOf(wpc', result') # Phase =>
          \/ <<Phase, PhaseOf(wpc', result')>> \in C8_Allowed
          \/ /\ Phase = "failed"
             /\ PhaseOf(wpc', result') = "init"
             /\ retries' = retries + 1]_vars

C8_Witness ==
    wpc = "ended" /\ result = "success" /\ retries > 0

\* C9: the cancel flag acts only at checkpoints: the cancelled arm is entered
\* only from a check_cancellation call, and a step that is in progress while
\* the flag is set goes on to its own completion or its own failure.
C9_StepEnd ==
    {<<"init", "cp_init">>, <<"planning", "cp_planning">>,
     <<"implementation", "cp_impl">>, <<"self_review", "cp_review">>,
     <<"testing", "fb_final">>}

C9_CancelOnlyAtCheckpoints ==
    [][/\ (wpc' = "cancel_pr" /\ wpc # "cancel_pr") =>
              wpc \in {"cp_init", "cp_planning", "cp_impl", "cp_review"}
       /\ (is_cancelled(cancel_key) /\ wpc' # wpc /\ \E e \in C9_StepEnd : e[1] = wpc) =>
              (<<wpc, wpc'>> \in C9_StepEnd \/ wpc' = "fail_post")]_vars

C9_Witness ==
    /\ wpc = "cp_impl"
    /\ current_phase = "planning"
    /\ is_cancelled(cancel_key)

C11_WorkDirRemoved ==
    (wpc \in {"ended", "retry_wait"} /\ ~rmtree_failed) => ~work_dir

C11_Witness ==
    /\ wpc = "retry_wait"
    /\ retries = 0
    /\ pr.exists
    /\ ~work_dir
    /\ ~rmtree_failed

\* C12: an attempt that a transient transport failure ended (git clone or
\* git push could not reach the remote, an HTTP call raised an OS-level
\* error) is retried as long as fewer than 3 retries were made, and ends as
\* failed after the third retry.
C12_TransportFailureRetried ==
    (wpc \in {"cleanup", "retry_wait", "ended"}
       /\ exc \in {"transient", "CalledProcessError"}) =>
        result = IF retries < max_retries THEN "retry" ELSE "failed"

\* C13: an attempt that a logic error ended (dog.run_task raising Exception
\* for no change or for validation not repaired, the tests step raising
\* ValueError) ends as failed in that attempt and waits for no retry.
C13_LogicErrorTerminal ==
    (wpc \in {"cleanup", "retry_wait", "ended"} /\ exc = "logic") =>
        /\ result = "failed"
        /\ wpc # "retry_wait"

C13_Witness ==
    /\ wpc = "ended"
    /\ exc = "logic"
    /\ result = "failed"
    /\ retries = 1
    /\ current_phase = "self-review"

C15_CompileHangRepaired ==
    after_start = "compile_hang" => (after_runs = 1 /\ after_starts = 2)

\* C20: a capture step always hands over to the statement that follows it,
\* with no exception in flight, and when its dev-server start failed (in any
\* of the seven ways) it returns no screenshots; the task can then still end
\* as done.
C20_ServerFailureHarmless ==
    [][/\ (wpc = "before_shots" /\ wpc' # wpc) =>
              /\ wpc' = NextStep(wpc)
              /\ exc' = "none"
              /\ (before_start' \in ServerFailures => ~before_screenshots')
       /\ (wpc = "after_shots" /\ wpc' # wpc) =>
              /\ wpc' = NextStep(wpc)
              /\ exc' = "none"
              /\ (after_start' \in ServerFailures => ~after_screenshots')]_vars

C20_Witness ==
    /\ wpc = "ended"
    /\ result = "success"
    /\ retries = 0
    /\ before_screenshots
    /\ after_start = "runtime_hang"
    /\ ~after_screenshots

\* C16: over any interleaving of the listener's appends and the
\* get_new_messages calls of one instance, what the calls returned, put end
\* to end, is the start of the thread's list (every message at most once, in
\* the order of the appends), and a call that read the list leaves nothing of
\* it unreturned.
C16_IsPrefix ==
    /\ Len(drained) <= Len(thread_messages)
    /\ drained = SubSeq(thread_messages, 1, Len(drained))

C16_EachMessageOnceInOrder ==
    /\ []C16_IsPrefix
    /\ [][message_pointer' # message_pointer => drained' = thread_messages]_vars

C16_Witness ==
    /\ Len(thread_messages) = MaxMsgs
    /\ drained = thread_messages
    /\ calls >= 2
    /\ w_pc = "idle"

\* C17: wait_for_response always returns; it returns as soon as the messages
\* collected since the call number min_messages, or once timeout has
\* elapsed, and what it returns is everything that was drained during the
\* wait (the messages drained while there were fewer than min_messages too).
C17_Returned ==
    w_pc = "returned" =>
        /\ all_responses = SubSeq(drained, w_from + 1, Len(drained))
        /\ \/ Len(all_responses) >= min_messages
           \/ elapsed >= timeout

C17_WaitReturnsAll ==
    /\ (w_pc = "loop") ~> (w_pc = "returned")
    /\ []C17_Returned
    /\ [][(w_pc = "loop" /\ Len(all_responses') >= min_messages) =>
              w_pc' = "returned"]_vars

C17_Witness ==
    /\ w_pc = "returned"
    /\ min_messages = 2
    /\ Len(all_responses) = 1
    /\ elapsed >= timeout

\* C18: with two dogs and the store available, the dog the intake selects
\* has the fewest active tasks of the roster, and no dog before it in the
\* roster has as few; with loads 2 and 0 for [D1, D2] it is D2.
C18_LeastBusyFirstInRoster ==
    [][(ipc = "mention" /\ ipc' = "selected") =>
          /\ \E i \in 1..Len(Dogs) :
                /\ dog_name' = Dogs[i]
                /\ \A j \in 1..Len(Dogs) :
                       Cardinality(active_tasks[Dogs[i]]) <= Cardinality(active_tasks[Dogs[j]])
                /\ \A j \in 1..(i - 1) :
                       Cardinality(active_tasks[Dogs[j]]) > Cardinality(active_tasks[Dogs[i]])
          /\ (Cardinality(active_tasks["D1"]) = 2 /\ Cardinality(active_tasks["D2"]) = 0)
                => dog_name' = "D2"]_vars

C18_Witness ==
    /\ ipc = "selected"
    /\ Cardinality(active_tasks["D1"]) = 2
    /\ Cardinality(active_tasks["D2"]) = 0
    /\ dog_name = "D2"

\* C19: mark_dog_free of a task that is not in the dog's set changes no set
\* (whatever the dog and the task); a step of the job that calls
\* mark_dog_free leaves a store that a second mark_dog_free would not change,
\* removes nothing but the task, touches no other dog's set, and goes on
\* without an exception.
C19_NonMemberNoOp ==
    \A d \in DogNames, t \in 0..MaxOthers :
        t \notin active_tasks[d] => mark_dog_free(d, t) = active_tasks

C19_MarkFreeIdempotent ==
    /\ []C19_NonMemberNoOp
    /\ [][(wpc \in {"free_done", "cancel_free", "fail_free"} /\ wpc' # wpc) =>
              /\ mark_dog_free(dog_name, T)' = active_tasks'
              /\ active_tasks'[dog_name] = active_tasks[dog_name] \ {T}
              /\ \A d \in DogNames \ {dog_name} : active_tasks'[d] = active_tasks[d]
              /\ wpc' = "cleanup"
              /\ exc' = exc]_vars

C19_Witness ==
    /\ wpc = "cleanup"
    /\ retries = 1
    /\ active_tasks[dog_name] # {}
    /\ T \notin active_tasks[dog_name]

\* C21: after any sequence of cost additions (text-generation calls in any
\* category, declared or not, and the editing agent's costs of
\* implementation, self-review and testing), the total of the cost report
\* equals the sum of its per-category amounts.
C21_TotalIsSumOfBreakdown ==
    get_cost_report.total_cost =
        SumOver(get_cost_report.breakdown, DOMAIN get_cost_report.breakdown)

\* C21 witness: costs were added in an undeclared category, by the editing
\* agent and by a declared text-generation category.
C21_Witness ==
    /\ "undeclared" \in DOMAIN cost_breakdown
    /\ cost_breakdown["undeclared"] > 0
    /\ cost_breakdown["testing"] > 0
    /\ cost_breakdown["pr_title"] > 0

\* C22: the port scan returns the preferred port when it is free; otherwise
\* the first free port of the alternative list, in list order; when none is
\* free it returns none, and start_dev_server fails without launching a
\* child process.
C22_Free(t, p) == p \notin scan_in_use[t]

C22_Alternatives(t) ==
    SelectSeq(alternative_ports, LAMBDA p : p # preferred_port[t])

C22_NoneFree(t) ==
    /\ ~C22_Free(t, preferred_port[t])
    /\ \A i \in DOMAIN C22_Alternatives(t) : ~C22_Free(t, C22_Alternatives(t)[i])

C22_PortSelection ==
    \A t \in Tasks :
        /\ s_pc[t] \in {"install", "launch", "wait", "returned"} =>
             /\ C22_Free(t, preferred_port[t]) =>
                    dev_server_port[t] = preferred_port[t]
             /\ (~C22_Free(t, preferred_port[t]) /\ ~C22_NoneFree(t)) =>
                    \E i \in DOMAIN C22_Alternatives(t) :
                        /\ dev_server_port[t] = C22_Alternatives(t)[i]
                        /\ C22_Free(t, C22_Alternatives(t)[i])
                        /\ \A j \in 1..(i - 1) :
                               ~C22_Free(t, C22_Alternatives(t)[j])
             /\ C22_NoneFree(t) =>
                    /\ dev_server_port[t] = 0
                    /\ s_pc[t] = "returned"
                    /\ start_result[t] = "no_port"
        /\ start_result[t] = "no_port" =>
             /\ C22_NoneFree(t)
             /\ dev_server_process[t] = "none"

\* C22 witness: the scan fell back to an alternative behind a taken one.
C22_Witness ==
    /\ s_pc[1] = "install"
    /\ preferred_port[1] = 5173
    /\ dev_server_port[1] = 5174

\* C22 witness of the failing start: every port was taken and the start
\* returned without a child process.
C22_WitnessNoPort ==
    /\ start_result[1] = "no_port"
    /\ s_pc[1] = "implementation"
    /\ dev_server_process[1] = "none"

\* C23 as claimed: once the ready banner has been seen, if 40 s pass without
\* an HTTP success and at least one HTTP request has timed out, the start
\* has stopped waiting (it failed as a silent hang); and it fails as a
\* silent hang only after the banner and an HTTP timeout.
C23_SilentHangAfter40s ==
    /\ (server_ready_seen /\ since_banner > silence_limit /\ any_timeout) =>
           l_result # "none"
    /\ l_result = "silent_hang" => (server_ready_seen /\ any_timeout)

\* C23 as amended: once the ready banner has been seen, if more than 40 s
\* have passed since the last line of server output and the HTTP request
\* just made timed out, the start fails as a silent hang instead of
\* continuing to wait (as a runtime hang when that timeout was the fourth in
\* a row); it does not fail as a silent hang before the ready banner was
\* seen or when no HTTP timeout occurred.
C23_SilentHangOnSilence ==
    /\ (/\ l_result \notin {"off", "timeout"}
        /\ server_ready_seen
        /\ last_http = "timeout"
        /\ silence_at_check > silence_limit) =>
           /\ l_result \in {"silent_hang", "runtime_hang"}
           /\ l_result = "runtime_hang" <=> consecutive_timeouts >= timeouts_limit
    /\ l_result = "silent_hang" =>
           /\ server_ready_seen
           /\ any_timeout
           /\ last_http = "timeout"
           /\ silence_at_check > silence_limit

\* C23 witness: the start failed as a silent hang.
C23_Witness ==
    /\ l_result = "silent_hang"
    /\ consecutive_timeouts = 2

\* C24: the branch-name generator returns base = {dog-slug}/{date}-{task-slug}
\* when no branch of that name exists on the forge, and otherwise base-N for
\* the smallest N >= 2 such that base-N does not exist: the suffixes it
\* tries are 2, 3, 4, ... in order, the returned name did not exist when it
\* was checked, and the result is determined by the dog, the date, the
\* description and the set of existing branches.
C24_Base == base_branch_name(bn_dog_name, date_prefix, task_description)

C25_TitleAtMost70 ==
    title_pc = "created" =>
        /\ Len(pr_title) <= 70
        /\ SubSeq(pr_title, 1, 12) = PREFIX

\* C25 witness: an answer longer than a whole title was cut and passed on.
C25_Witness ==
    /\ title_pc = "created"
    /\ model_answer # Failed
    /\ Len(model_answer) > 70
    /\ Len(pr_title) > 12

\* C25 witness of the fallback: the call raised and a description longer
\* than a whole title was cut.
C25_WitnessFallback ==
    /\ title_pc = "created"
    /\ model_answer = Failed
    /\ Len(title_task) > 70
    /\ Len(pr_title) > 12

\* C26: when the implementation step starts, no dev-server process started
\* by the before capture is running, on every path of the capture
\* (screenshots taken, no URLs extracted, or the start having failed for any
\* reason).
C26_NoServerAtImplementation ==
    \A t \in Tasks : s_pc[t] = "implementation" => ~Running(t)

\* C28: two tasks that run concurrently on the same host never have their
\* dev servers assigned the same port, under any interleaving of their port
\* scans, dependency installs and server launches; and a task's readiness
\* check never succeeds against another task's server.
C28_Starting(t) == s_pc[t] \in {"install", "launch", "wait"}

C28_DisjointPorts ==
    \A t \in Tasks :
        /\ \A u \in Tasks \ {t} :
               (C28_Starting(t) /\ C28_Starting(u)) =>
                   dev_server_port[t] # dev_server_port[u]
        /\ answered_by[t] \in {0, t}

\* C27: a pass run to absorb thread feedback (after implementation, after
\* self-review or after testing) that leaves the working tree without
\* changes is treated as success: the pipeline goes on to the next step and
\* does not end as failed.
C27_NoChangeIsSuccess ==
    [][(/\ wpc \in {"fb_impl", "fb_review", "fb_final"}
        /\ Len(prompts') > Len(prompts)
        /\ feedback_pass' = "unchanged") =>
           (wpc' = NextStep(wpc) /\ exc' = exc)]_vars

\* C29: the cancel-button handler has two outcomes only: either the cancel
\* flag is set (with its 1 h TTL) and the acknowledgement message is
\* rewritten to 'cancellation requested', or no flag is set and an error is
\* posted to the thread. It never reports 'could not cancel' while leaving
\* the flag set, and never leaves a flag without TTL.
C29_TwoOutcomes ==
    (ch_pc = "idle" /\ ch_clicks = 1) =>
        /\ \/ key_set /\ key_ttl /\ run_rewritten /\ ~run_error
           \/ ~key_set /\ run_error /\ ~run_rewritten
        /\ ~(run_error /\ key_set)
        /\ key_set => key_ttl

\* C30: if the store is unreachable or the query raises, is_cancelled
\* returns false and no exception escapes the checkpoint, so the pipeline
\* proceeds to the next phase as if no cancellation had been requested.
C30_OutageReadsAsNotCancelled ==
    [][(/\ CheckpointPhase(wpc) # "none"
        /\ ~(cm_client /\ cm_up)
        /\ wpc' # wpc) =>
           /\ wpc' = NextStep(wpc)
           /\ exc' = exc
           /\ cp_query' = "failed"]_vars

\* C30 witness: the flag was set, the query of the checkpoint failed, and
\* the pipeline went on to the planning step.
C30_Witness ==
    /\ cancel_key > 0
    /\ cp_query = "failed"
    /\ cm_client
    /\ wpc = "planning"

C31_WitnessNoClient ==
    \E h \in Handlers :
        /\ h_pc[h] = "done"
        /\ ~ds_client
        /\ selected_dog[h] = Dogs[1]
        /\ Cardinality(active0[Dogs[1]]) > Cardinality(active0[Dogs[2]])

\* C38: two mentions handled side by side, both dogs idle before, the store
\* answering every command of both runs (every load query answered, both
\* tasks entered in an active set): the two tasks go to different dogs
C38_DifferentDogs ==
    (/\ \A h \in Handlers : h_pc[h] = "done" /\ h_failed[h] = {}
     /\ ds_client
     /\ \A d \in DogNames : active0[d] = {}
     /\ \A h \in Handlers : task_id_of(h) \in active_tasks[selected_dog[h]])
    => selected_dog[1] # selected_dog[2]

\* C32: start_dev_server returns, whatever the child prints and however
\* long it goes on printing, the drains of the remaining output included
C32_StartReturns ==
    <>(l_result \notin {"none", "drain_exit", "drain_timeout"})

\* C33: in an iteration of the wait loop that makes an HTTP request, a
\* timeout adds one to the count of consecutive timeouts and every other
\* outcome short of success (5xx answer, refused connection, other error)
\* sets it to zero; an iteration without a request leaves it alone; and
\* start fails for too many timeouts exactly when the count reaches four
C33_FourthTimeoutFails ==
    [][(l_result = "none" /\ l_result' # "drain_timeout") =>
         /\ last_http' = "timeout"
              => consecutive_timeouts' = consecutive_timeouts + 1
         /\ last_http' \in {"status5xx", "refused", "failed"}
              => consecutive_timeouts' = 0
         /\ last_http' = "skipped"
              => consecutive_timeouts' = consecutive_timeouts
         /\ l_result' = "runtime_hang"
              <=> (last_http' = "timeout"
                     /\ consecutive_timeouts' >= timeouts_limit)]_vars

\* C33: start failed on its fourth timeout in a row
C33_Witness ==
    /\ l_result = "runtime_hang"
    /\ consecutive_timeouts = timeouts_limit
    /\ last_http = "timeout"

\* C33: after three timeouts a refused connection set the count to zero, and
\* start went on
C33_WitnessReset ==
    /\ l_result = "none"
    /\ any_timeout
    /\ last_http = "refused"
    /\ consecutive_timeouts = 0
    /\ loop_elapsed >= 3 * http_timeout_early

\* C34: when a compiling line was read and 60 s have passed without a
\* compiled or ready line (and without an error line, within the time
\* allowed to the start), start fails, and the caller can tell the failure
\* from the others: start returns False and leaves the error type
\* "compilation_hang"; and start does not report the server ready while
\* compilation is in progress
C34_CompileHangTold ==
    /\ l_result = "compile_hang"
         => (~start_dev_server(l_result)
               /\ last_error_type = "compilation_hang")
    /\ (compilation_in_progress /\ since_compile >= compile_patience
          /\ loop_elapsed < start_timeout
          /\ l_result \notin {"none", "compile_error"})
         => l_result = "compile_hang"
    /\ compilation_in_progress => ~start_dev_server(l_result)

\* C35: when an attempt of the job has ended, no dev-server child that the
\* task launched is still running
C35_NoChildAtEnd ==
    wpc \in {"ended", "retry_wait"} => children = 0

\* C36: the "completed" post is in the thread, or the attempt has returned
\* its success result, only if the PR carries its final body and is no
\* longer a draft (update_pull_request and mark_pr_ready both succeeded)
C36_DoneOnlyIfForgeSucceeded ==
    (result = "success" \/ \E i \in 1..Len(posts) : posts[i] = "completed")
        => (pr.body = "final" /\ ~pr.draft)

\* C37: no two tasks that are live at the same time carry the same branch
\* name
C37_DistinctBranchNames ==
    \A i, j \in DOMAIN live_branches :
        i # j => live_branches[i].name # live_branches[j].name

====
